---- MODULE Spec2Model ----
(***************************************************************************)
(* Castle Alpha: the procedural mesh library GeometryGenerator             *)
(* (Common/GeometryGenerator.cpp).  Every generator is a pure function     *)
(* (parameters) -> MeshData; Subdivide refines a mesh in place and         *)
(* MidPoint interpolates two vertices.  A call is one action: it draws its *)
(* arguments from bounded sets, runs the whole function body and leaves    *)
(* the returned mesh in meshData.                                          *)
(*                                                                         *)
(* Numbers.  A float is a fixed-point integer: positions and texture       *)
(* coordinates in units of 1/One, normals and tangents in units of         *)
(* 1/NormOne.  One = 5 * 2^10 makes every coefficient of the literal       *)
(* tables (1/2, 3/4, 9/10, 19/20, 3/10, 3/2, 5/4 ...) and six successive   *)
(* halvings of them exact.  Indices are 0-based as in the code; TLA+       *)
(* sequences are 1-based, so slot k of the code is element k+1.            *)
(*                                                                         *)
(* Uninitialised storage.  A local array slot the code never assigns, and  *)
(* the value of a call that flows off the end of its body, hold whatever   *)
(* the build left there: each call draws that content (junk) from          *)
(* JunkVertices and JunkIndexValues.                                       *)
(***************************************************************************)
EXTENDS Integers, Sequences, FiniteSets, TLC

VARIABLES
  pc,         \* "idle": no call in progress; "returned": the call executed a
              \* return statement; "fell_off_end": the call left its body
              \* without one; "sub": a caller holds a mesh it subdivides;
              \* "mid": a caller holds two vertices it interpolates
  call,       \* the function called and its arguments
  meshData,   \* the MeshData of the call (the returned value, or the
              \* in/out parameter of Subdivide)
  inputCopy,  \* Subdivide's saved copy of its input
  passes,     \* number of Subdivide calls made on meshData
  midpoint,   \* the vertex returned by MidPoint
  previous,   \* the call and the mesh of the call before this one
  locals,     \* the local variables of a function that runs step by step
              \* (loop counters, offsets); NoLocals for a whole-call action
  app         \* the members of the ShapesApp object (mGeometries)

vars == <<pc, call, meshData, inputCopy, passes, midpoint, previous, locals, app>>

-----------------------------------------------------------------------------
(* Bounds of the model *)

\* width, height, depth and radius are drawn from 1..MaxDim (whole units)
MaxDim == 2
\* numSubdivisions is drawn from 0..MaxSubdivArg
MaxSubdivArg == 7
\* a subdivision loop is explored when it builds at most MaxTris triangles
MaxTris == 16384
\* calls with extents other than 1 take numSubdivisions in 0..MaxSubdivScaled
MaxSubdivScaled == 1
\* sliceCount and stackCount are drawn from 1..MaxSliceCount, 1..MaxStackCount
\* (CreateSphere: stackCount from 2), the grid sizes m and n from 2..MaxGrid
MaxSliceCount == 3
MaxStackCount == 3
MaxGrid == 3

-----------------------------------------------------------------------------
(* Fixed-point numbers and vectors *)

One == 5 * (2 ^ 10)
NormOne == 10 * 100

Fixed(p, q) == (One * p) \div q
Scale(x, p, q) == (x * p) \div q
Half(x) == x \div 2
Abs(x) == IF x < 0 THEN -x ELSE x
Min(a, b) == IF a < b THEN a ELSE b

Dot(a, b) == a[1] * b[1] + a[2] * b[2] + a[3] * b[3]
Add3(a, b) == <<a[1] + b[1], a[2] + b[2], a[3] + b[3]>>
Sub3(a, b) == <<a[1] - b[1], a[2] - b[2], a[3] - b[3]>>
Cross(a, b) == <<a[2] * b[3] - a[3] * b[2],
                 a[3] * b[1] - a[1] * b[3],
                 a[1] * b[2] - a[2] * b[1]>>

\* a function with domain 1..n as a sequence value
AsSeq(f) == f \o <<>>

RECURSIVE SqrtIter(_, _)
SqrtIter(x, r) ==
  LET r2 == (r + x \div r) \div 2
  IN IF r2 >= r THEN r ELSE SqrtIter(x, r2)

\* floor of the square root
ISqrt(x) == IF x = 0 THEN 0 ELSE SqrtIter(x, x)

\* a / b rounded to nearest, b > 0
RoundDiv(a, b) ==
  IF a >= 0 THEN (2 * a + b) \div (2 * b) ELSE -((2 * (-a) + b) \div (2 * b))

\* XMVector3Normalize: v / |v|, and the zero vector when |v| = 0
XMVector3Normalize(v) ==
  LET len == ISqrt(Dot(v, v))
  IN IF len = 0
       THEN <<0, 0, 0>>
       ELSE <<RoundDiv(v[1] * NormOne, len),
              RoundDiv(v[2] * NormOne, len),
              RoundDiv(v[3] * NormOne, len)>>

-----------------------------------------------------------------------------
(* Vertex and MeshData *)

\* Vertex(px,py,pz, nx,ny,nz, tx,ty,tz, u,v): the position is given in
\* fixed point, the other attributes as the integer literals of the tables
Vertex(px, py, pz, nx, ny, nz, tx, ty, tz, u, v) ==
  [Position |-> <<px, py, pz>>,
   Normal   |-> <<nx * NormOne, ny * NormOne, nz * NormOne>>,
   TangentU |-> <<tx * NormOne, ty * NormOne, tz * NormOne>>,
   TexC     |-> <<u * One, v * One>>]

EmptyMesh == [Vertices |-> <<>>, Indices32 |-> <<>>]

NumVertices(m) == Len(m.Vertices)
NumIndices(m) == Len(m.Indices32)
NumTriangles(m) == Len(m.Indices32) \div 3

\* content of uninitialised storage
JunkVertices ==
  { [Position |-> <<0, 0, 0>>, Normal |-> <<0, 0, 0>>,
     TangentU |-> <<0, 0, 0>>, TexC |-> <<0, 0>>],
    [Position |-> <<-One, 3 * One, 7>>, Normal |-> <<13, -NormOne, 5>>,
     TangentU |-> <<1, 2, 3>>, TexC |-> <<-4, One>>] }
JunkIndexValues == {0, 2147483647}
Junk == [vertex : JunkVertices, index : JunkIndexValues]

-----------------------------------------------------------------------------
(* MidPoint and Subdivide *)

\* a MidPoint that places the new vertex a quarter of the way from v0 to v1
MidPointQuarter(v0, v1) ==
  LET p0 == v0.Position    p1 == v1.Position
      n0 == v0.Normal      n1 == v1.Normal
      tan0 == v0.TangentU  tan1 == v1.TangentU
      tex0 == v0.TexC      tex1 == v1.TexC
  IN [Position |-> <<(3 * p0[1] + p1[1]) \div 4, (3 * p0[2] + p1[2]) \div 4,
                     (3 * p0[3] + p1[3]) \div 4>>,
      Normal   |-> XMVector3Normalize(Add3(n0, n1)),
      TangentU |-> XMVector3Normalize(Add3(tan0, tan1)),
      TexC     |-> <<Half(tex0[1] + tex1[1]), Half(tex0[2] + tex1[2])>>]

MidPoint(v0, v1) ==
  LET p0 == v0.Position    p1 == v1.Position
      n0 == v0.Normal      n1 == v1.Normal
      tan0 == v0.TangentU  tan1 == v1.TangentU
      tex0 == v0.TexC      tex1 == v1.TexC
      \* 0.5f*(a + b): the sum, halved
      pos == <<Half(p0[1] + p1[1]), Half(p0[2] + p1[2]), Half(p0[3] + p1[3])>>
      \* normalising 0.5f*(a + b) is normalising a + b
      normal == XMVector3Normalize(Add3(n0, n1))
      tangent == XMVector3Normalize(Add3(tan0, tan1))
      tex == <<Half(tex0[1] + tex1[1]), Half(tex0[2] + tex1[2])>>
  IN [Position |-> pos, Normal |-> normal, TangentU |-> tangent, TexC |-> tex]

\* an index pattern whose second triangle (m0, m2, m1) is wound the other way
SubdividePatternReversed == <<0, 3, 5,  3, 5, 4,  5, 4, 2,  3, 1, 4>>

\* the index pattern of the four triangles pushed for one source triangle
SubdividePattern == <<0, 3, 5,  3, 4, 5,  5, 4, 2,  3, 1, 4>>

\* a Subdivide that keeps the input vertices and appends only the three
\* midpoints of each triangle
SubdivideSharingCorners(mesh) ==
  LET numTris == Len(mesh.Indices32) \div 3
      nv == Len(mesh.Vertices)
      Corner(i, k) == mesh.Indices32[i * 3 + k + 1]
      Mid(i, k) ==
        CASE k = 0 -> MidPoint(mesh.Vertices[Corner(i, 0) + 1], mesh.Vertices[Corner(i, 1) + 1])
          [] k = 1 -> MidPoint(mesh.Vertices[Corner(i, 1) + 1], mesh.Vertices[Corner(i, 2) + 1])
          [] k = 2 -> MidPoint(mesh.Vertices[Corner(i, 0) + 1], mesh.Vertices[Corner(i, 2) + 1])
      Slot(i, s) == IF s < 3 THEN Corner(i, s) ELSE nv + 3 * i + (s - 3)
  IN [Vertices  |-> AsSeq(mesh.Vertices \o
                            [p \in 1..(3 * numTris) |-> Mid((p - 1) \div 3, (p - 1) % 3)]),
      Indices32 |-> AsSeq([q \in 1..(12 * numTris) |->
                             Slot((q - 1) \div 12,
                                  SubdividePattern[((q - 1) % 12) + 1])])]

Subdivide(mesh) ==
  LET inputCopyL == mesh
      numTris == Len(inputCopyL.Indices32) \div 3
      Corner(i, k) == inputCopyL.Vertices[inputCopyL.Indices32[i * 3 + k + 1] + 1]
      \* the six vertices pushed for triangle i: v0 v1 v2 m0 m1 m2
      Pushed(i, k) ==
        CASE k = 0 -> Corner(i, 0)
          [] k = 1 -> Corner(i, 1)
          [] k = 2 -> Corner(i, 2)
          [] k = 3 -> MidPoint(Corner(i, 0), Corner(i, 1))
          [] k = 4 -> MidPoint(Corner(i, 1), Corner(i, 2))
          [] k = 5 -> MidPoint(Corner(i, 0), Corner(i, 2))
  IN [Vertices  |-> AsSeq([p \in 1..(6 * numTris) |->
                             Pushed((p - 1) \div 6, (p - 1) % 6)]),
      Indices32 |-> AsSeq([q \in 1..(12 * numTris) |->
                             ((q - 1) \div 12) * 6
                               + SubdividePattern[((q - 1) % 12) + 1]])]

\* for (i = 0; i < numSubdivisions; ++i) Subdivide(meshData);
\* the mesh after the loop and the number of Subdivide calls it made.  A loop
\* that would build more than MaxTris triangles is not explored.
RECURSIVE SubdivideLoop(_, _, _)
SubdivideLoop(mesh, i, numSubdivisions) ==
  IF i = 0 /\ NumTriangles(mesh) * 4 ^ numSubdivisions > MaxTris
    THEN [mesh |-> mesh, passes |-> 0, explored |-> FALSE]
    ELSE IF i < numSubdivisions
      THEN SubdivideLoop(Subdivide(mesh), i + 1, numSubdivisions)
      ELSE [mesh |-> mesh, passes |-> i, explored |-> TRUE]

-----------------------------------------------------------------------------
(* The literal vertex and index tables of the bespoke generators *)

\* CreateBar: Vertex v[24] (24 slots assigned), uint32 i[36] (36 slots assigned)
BarVertices(width, height, depth) ==
  LET w2 == Scale(width, 1, 2)
      h2 == Scale(height, 1, 2)
      d2 == Scale(depth, 1, 2)
  IN
    <<
       Vertex(-w2, -h2, -d2, 0, 0, -1, 1, 0, 0, 0, 1),
       Vertex(-w2, h2, -d2, 0, 0, -1, 1, 0, 0, 0, 0),
       Vertex(w2, h2, -d2, 0, 0, -1, 1, 0, 0, 1, 0),
       Vertex(w2, -h2, -d2, 0, 0, -1, 1, 0, 0, 1, 1),
       Vertex(-w2, -h2, d2, 0, 0, 1, -1, 0, 0, 1, 1),
       Vertex(w2, -h2, d2, 0, 0, 1, -1, 0, 0, 0, 1),
       Vertex(w2, h2, d2, 0, 0, 1, -1, 0, 0, 0, 0),
       Vertex(-w2, h2, d2, 0, 0, 1, -1, 0, 0, 1, 0),
       Vertex(-w2, h2, -d2, 0, 1, 0, 1, 0, 0, 0, 1),
       Vertex(-w2, h2, d2, 0, 1, 0, 1, 0, 0, 0, 0),
       Vertex(w2, h2, d2, 0, 1, 0, 1, 0, 0, 1, 0),
       Vertex(w2, h2, -d2, 0, 1, 0, 1, 0, 0, 1, 1),
       Vertex(-w2, -h2, -d2, 0, -1, 0, -1, 0, 0, 1, 1),
       Vertex(w2, -h2, -d2, 0, -1, 0, -1, 0, 0, 0, 1),
       Vertex(w2, -h2, d2, 0, -1, 0, -1, 0, 0, 0, 0),
       Vertex(-w2, -h2, d2, 0, -1, 0, -1, 0, 0, 1, 0),
       Vertex(-w2, -h2, d2, -1, 0, 0, 0, 0, -1, 0, 1),
       Vertex(-w2, h2, d2, -1, 0, 0, 0, 0, -1, 0, 0),
       Vertex(-w2, h2, -d2, -1, 0, 0, 0, 0, -1, 1, 0),
       Vertex(-w2, -h2, -d2, -1, 0, 0, 0, 0, -1, 1, 1),
       Vertex(w2, -h2, -d2, 1, 0, 0, 0, 0, 1, 0, 1),
       Vertex(w2, h2, -d2, 1, 0, 0, 0, 0, 1, 0, 0),
       Vertex(w2, h2, d2, 1, 0, 0, 0, 0, 1, 1, 0),
       Vertex(w2, -h2, d2, 1, 0, 0, 0, 0, 1, 1, 1)
    >>

BarIndices ==
    <<
      0, 1, 2, 0, 2, 3,
      4, 5, 6, 4, 6, 7,
      8, 9, 10, 8, 10, 11,
      12, 13, 14, 12, 14, 15,
      16, 17, 18, 16, 18, 19,
      20, 21, 22, 20, 22, 23
    >>

\* a box table without the inset of the top face
BoxVerticesUnscaled(width, height, depth) == BarVertices(width, height, depth)

\* an index table whose first triangle uses a vertex of the back face
BoxIndicesCrossingFaces == [BarIndices EXCEPT ![3] = 4]

\* CreateBox: Vertex v[24] (24 slots assigned), uint32 i[36] (36 slots assigned)
BoxVertices(width, height, depth) ==
  LET w2 == Scale(width, 1, 2)
      h2 == Scale(height, 1, 2)
      d2 == Scale(depth, 1, 2)
  IN
    <<
       Vertex(-w2, -h2, -d2, 0, 0, -1, 1, 0, 0, 0, 1),
       Vertex(Scale(-w2, 9, 10), Scale(h2, 9, 10), Scale(-d2, 9, 10), 0, 0, -1, 1, 0, 0, 0, 0),
       Vertex(Scale(w2, 9, 10), Scale(h2, 9, 10), Scale(-d2, 9, 10), 0, 0, -1, 1, 0, 0, 1, 0),
       Vertex(w2, -h2, -d2, 0, 0, -1, 1, 0, 0, 1, 1),
       Vertex(-w2, -h2, d2, 0, 0, 1, -1, 0, 0, 1, 1),
       Vertex(w2, -h2, d2, 0, 0, 1, -1, 0, 0, 0, 1),
       Vertex(Scale(w2, 9, 10), Scale(h2, 9, 10), Scale(d2, 9, 10), 0, 0, 1, -1, 0, 0, 0, 0),
       Vertex(Scale(-w2, 9, 10), Scale(h2, 9, 10), Scale(d2, 9, 10), 0, 0, 1, -1, 0, 0, 1, 0),
       Vertex(Scale(-w2, 9, 10), Scale(h2, 9, 10), Scale(-d2, 9, 10), 0, 1, 0, 1, 0, 0, 0, 1),
       Vertex(Scale(-w2, 9, 10), Scale(h2, 9, 10), Scale(d2, 9, 10), 0, 1, 0, 1, 0, 0, 0, 0),
       Vertex(Scale(w2, 9, 10), Scale(h2, 9, 10), Scale(d2, 9, 10), 0, 1, 0, 1, 0, 0, 1, 0),
       Vertex(Scale(w2, 9, 10), Scale(h2, 9, 10), Scale(-d2, 9, 10), 0, 1, 0, 1, 0, 0, 1, 1),
       Vertex(-w2, -h2, -d2, 0, -1, 0, -1, 0, 0, 1, 1),
       Vertex(w2, -h2, -d2, 0, -1, 0, -1, 0, 0, 0, 1),
       Vertex(w2, -h2, d2, 0, -1, 0, -1, 0, 0, 0, 0),
       Vertex(-w2, -h2, d2, 0, -1, 0, -1, 0, 0, 1, 0),
       Vertex(-w2, -h2, d2, -1, 0, 0, 0, 0, -1, 0, 1),
       Vertex(Scale(-w2, 9, 10), Scale(h2, 9, 10), Scale(d2, 9, 10), -1, 0, 0, 0, 0, -1, 0, 0),
       Vertex(Scale(-w2, 9, 10), Scale(h2, 9, 10), Scale(-d2, 9, 10), -1, 0, 0, 0, 0, -1, 1, 0),
       Vertex(-w2, -h2, -d2, -1, 0, 0, 0, 0, -1, 1, 1),
       Vertex(w2, -h2, -d2, 1, 0, 0, 0, 0, 1, 0, 1),
       Vertex(Scale(w2, 9, 10), Scale(h2, 9, 10), Scale(-d2, 9, 10), 1, 0, 0, 0, 0, 1, 0, 0),
       Vertex(Scale(w2, 9, 10), Scale(h2, 9, 10), Scale(d2, 9, 10), 1, 0, 0, 0, 0, 1, 1, 0),
       Vertex(w2, -h2, d2, 1, 0, 0, 0, 0, 1, 1, 1)
    >>

BoxIndices ==
    <<
      0, 1, 2, 0, 2, 3,
      4, 5, 6, 4, 6, 7,
      8, 9, 10, 8, 10, 11,
      12, 13, 14, 12, 14, 15,
      16, 17, 18, 16, 18, 19,
      20, 21, 22, 20, 22, 23
    >>

\* CreateChocolate: Vertex v[264] (263 slots assigned), uint32 i[396] (72 slots assigned)
ChocolateVertices(width, height, depth, junkVertex) ==
  LET w2 == Scale(width, 1, 2)
      h2 == Scale(height, 1, 2)
      d2 == Scale(depth, 1, 2)
  IN
    <<
       Vertex(-w2, -h2, -d2, 0, 0, -1, 1, 0, 0, 0, 1),
       Vertex(-w2, h2, -d2, 0, 0, -1, 1, 0, 0, 0, 0),
       Vertex(w2, h2, -d2, 0, 0, -1, 1, 0, 0, 1, 0),
       Vertex(w2, -h2, -d2, 0, 0, -1, 1, 0, 0, 1, 1),
       Vertex(-w2, -h2, d2, 0, 0, 1, -1, 0, 0, 1, 1),
       Vertex(w2, -h2, d2, 0, 0, 1, -1, 0, 0, 0, 1),
       Vertex(w2, h2, d2, 0, 0, 1, -1, 0, 0, 0, 0),
       Vertex(-w2, h2, d2, 0, 0, 1, -1, 0, 0, 1, 0),
       Vertex(-w2, h2, -d2, 0, 1, 0, 1, 0, 0, 0, 1),
       Vertex(-w2, h2, d2, 0, 1, 0, 1, 0, 0, 0, 0),
       Vertex(w2, h2, d2, 0, 1, 0, 1, 0, 0, 1, 0),
       Vertex(w2, h2, -d2, 0, 1, 0, 1, 0, 0, 1, 1),
       Vertex(-w2, -h2, -d2, 0, -1, 0, -1, 0, 0, 1, 1),
       Vertex(w2, -h2, -d2, 0, -1, 0, -1, 0, 0, 0, 1),
       Vertex(w2, -h2, d2, 0, -1, 0, -1, 0, 0, 0, 0),
       Vertex(-w2, -h2, d2, 0, -1, 0, -1, 0, 0, 1, 0),
       Vertex(-w2, -h2, d2, -1, 0, 0, 0, 0, -1, 0, 1),
       Vertex(-w2, h2, d2, -1, 0, 0, 0, 0, -1, 0, 0),
       Vertex(-w2, h2, -d2, -1, 0, 0, 0, 0, -1, 1, 0),
       Vertex(-w2, -h2, -d2, -1, 0, 0, 0, 0, -1, 1, 1),
       Vertex(w2, -h2, -d2, 1, 0, 0, 0, 0, 1, 0, 1),
       Vertex(w2, h2, -d2, 1, 0, 0, 0, 0, 1, 0, 0),
       Vertex(w2, h2, d2, 1, 0, 0, 0, 0, 1, 1, 0),
       Vertex(w2, -h2, d2, 1, 0, 0, 0, 0, 1, 1, 1),
       Vertex(-w2, -h2, -d2, 0, 0, -1, 1, 0, 0, 0, 1),
       Vertex(Scale(-w2, 9, 10), Scale(h2, 9, 10), Scale(-d2, 9, 10), 0, 0, -1, 1, 0, 0, 0, 0),
       Vertex(Scale(w2, 9, 10), Scale(h2, 9, 10), Scale(-d2, 9, 10), 0, 0, -1, 1, 0, 0, 1, 0),
       Vertex(w2, -h2, -d2, 0, 0, -1, 1, 0, 0, 1, 1),
       Vertex(-w2, -h2, d2, 0, 0, 1, -1, 0, 0, 1, 1),
       Vertex(w2, -h2, d2, 0, 0, 1, -1, 0, 0, 0, 1),
       Vertex(Scale(w2, 9, 10), Scale(h2, 9, 10), Scale(d2, 9, 10), 0, 0, 1, -1, 0, 0, 0, 0),
       Vertex(Scale(-w2, 9, 10), Scale(h2, 9, 10), Scale(d2, 9, 10), 0, 0, 1, -1, 0, 0, 1, 0),
       Vertex(Scale(-w2, 9, 10), Scale(h2, 9, 10), Scale(-d2, 9, 10), 0, 1, 0, 1, 0, 0, 0, 1),
       Vertex(Scale(-w2, 9, 10), Scale(h2, 9, 10), Scale(d2, 9, 10), 0, 1, 0, 1, 0, 0, 0, 0),
       Vertex(Scale(w2, 9, 10), Scale(h2, 9, 10), Scale(d2, 9, 10), 0, 1, 0, 1, 0, 0, 1, 0),
       Vertex(Scale(w2, 9, 10), Scale(h2, 9, 10), Scale(-d2, 9, 10), 0, 1, 0, 1, 0, 0, 1, 1),
       Vertex(-w2, -h2, -d2, 0, -1, 0, -1, 0, 0, 1, 1),
       Vertex(w2, -h2, -d2, 0, -1, 0, -1, 0, 0, 0, 1),
       Vertex(w2, -h2, d2, 0, -1, 0, -1, 0, 0, 0, 0),
       Vertex(-w2, -h2, d2, 0, -1, 0, -1, 0, 0, 1, 0),
       Vertex(-w2, -h2, d2, -1, 0, 0, 0, 0, -1, 0, 1),
       Vertex(Scale(-w2, 9, 10), Scale(h2, 9, 10), Scale(d2, 9, 10), -1, 0, 0, 0, 0, -1, 0, 0),
       Vertex(Scale(-w2, 9, 10), Scale(h2, 9, 10), Scale(-d2, 9, 10), -1, 0, 0, 0, 0, -1, 1, 0),
       Vertex(-w2, -h2, -d2, -1, 0, 0, 0, 0, -1, 1, 1),
       Vertex(w2, -h2, -d2, 1, 0, 0, 0, 0, 1, 0, 1),
       Vertex(Scale(w2, 9, 10), Scale(h2, 9, 10), Scale(-d2, 9, 10), 1, 0, 0, 0, 0, 1, 0, 0),
       Vertex(Scale(w2, 9, 10), Scale(h2, 9, 10), Scale(d2, 9, 10), 1, 0, 0, 0, 0, 1, 1, 0),
       Vertex(w2, -h2, d2, 1, 0, 0, 0, 0, 1, 1, 1),
       Vertex(-w2, -h2, -d2, 0, 0, -1, 1, 0, 0, 0, 1),
       Vertex(Scale(-w2, 9, 10), Scale(h2, 9, 10), Scale(-d2, 9, 10), 0, 0, -1, 1, 0, 0, 0, 0),
       Vertex(Scale(w2, 9, 10), Scale(h2, 9, 10), Scale(-d2, 9, 10), 0, 0, -1, 1, 0, 0, 1, 0),
       Vertex(w2, -h2, -d2, 0, 0, -1, 1, 0, 0, 1, 1),
       Vertex(-w2, -h2, d2, 0, 0, 1, -1, 0, 0, 1, 1),
       Vertex(w2, -h2, d2, 0, 0, 1, -1, 0, 0, 0, 1),
       Vertex(Scale(w2, 9, 10), Scale(h2, 9, 10), Scale(d2, 9, 10), 0, 0, 1, -1, 0, 0, 0, 0),
       Vertex(Scale(-w2, 9, 10), Scale(h2, 9, 10), Scale(d2, 9, 10), 0, 0, 1, -1, 0, 0, 1, 0),
       Vertex(Scale(-w2, 9, 10), Scale(h2, 9, 10), Scale(-d2, 9, 10), 0, 1, 0, 1, 0, 0, 0, 1),
       Vertex(Scale(-w2, 9, 10), Scale(h2, 9, 10), Scale(d2, 9, 10), 0, 1, 0, 1, 0, 0, 0, 0),
       Vertex(Scale(w2, 9, 10), Scale(h2, 9, 10), Scale(d2, 9, 10), 0, 1, 0, 1, 0, 0, 1, 0),
       Vertex(Scale(w2, 9, 10), Scale(h2, 9, 10), Scale(-d2, 9, 10), 0, 1, 0, 1, 0, 0, 1, 1),
       Vertex(-w2, -h2, -d2, 0, -1, 0, -1, 0, 0, 1, 1),
       Vertex(w2, -h2, -d2, 0, -1, 0, -1, 0, 0, 0, 1),
       Vertex(w2, -h2, d2, 0, -1, 0, -1, 0, 0, 0, 0),
       Vertex(-w2, -h2, d2, 0, -1, 0, -1, 0, 0, 1, 0),
       Vertex(-w2, -h2, d2, -1, 0, 0, 0, 0, -1, 0, 1),
       Vertex(Scale(-w2, 9, 10), Scale(h2, 9, 10), Scale(d2, 9, 10), -1, 0, 0, 0, 0, -1, 0, 0),
       Vertex(Scale(-w2, 9, 10), Scale(h2, 9, 10), Scale(-d2, 9, 10), -1, 0, 0, 0, 0, -1, 1, 0),
       Vertex(-w2, -h2, -d2, -1, 0, 0, 0, 0, -1, 1, 1),
       Vertex(w2, -h2, -d2, 1, 0, 0, 0, 0, 1, 0, 1),
       Vertex(Scale(w2, 9, 10), Scale(h2, 9, 10), Scale(-d2, 9, 10), 1, 0, 0, 0, 0, 1, 0, 0),
       Vertex(Scale(w2, 9, 10), Scale(h2, 9, 10), Scale(d2, 9, 10), 1, 0, 0, 0, 0, 1, 1, 0),
       Vertex(w2, -h2, d2, 1, 0, 0, 0, 0, 1, 1, 1),
       Vertex(-w2, -h2, -d2, 0, 0, -1, 1, 0, 0, 0, 1),
       Vertex(Scale(-w2, 9, 10), Scale(h2, 9, 10), Scale(-d2, 9, 10), 0, 0, -1, 1, 0, 0, 0, 0),
       Vertex(Scale(w2, 9, 10), Scale(h2, 9, 10), Scale(-d2, 9, 10), 0, 0, -1, 1, 0, 0, 1, 0),
       Vertex(w2, -h2, -d2, 0, 0, -1, 1, 0, 0, 1, 1),
       Vertex(-w2, -h2, d2, 0, 0, 1, -1, 0, 0, 1, 1),
       Vertex(w2, -h2, d2, 0, 0, 1, -1, 0, 0, 0, 1),
       Vertex(Scale(w2, 9, 10), Scale(h2, 9, 10), Scale(d2, 9, 10), 0, 0, 1, -1, 0, 0, 0, 0),
       Vertex(Scale(-w2, 9, 10), Scale(h2, 9, 10), Scale(d2, 9, 10), 0, 0, 1, -1, 0, 0, 1, 0),
       Vertex(Scale(-w2, 9, 10), Scale(h2, 9, 10), Scale(-d2, 9, 10), 0, 1, 0, 1, 0, 0, 0, 1),
       Vertex(Scale(-w2, 9, 10), Scale(h2, 9, 10), Scale(d2, 9, 10), 0, 1, 0, 1, 0, 0, 0, 0),
       Vertex(Scale(w2, 9, 10), Scale(h2, 9, 10), Scale(d2, 9, 10), 0, 1, 0, 1, 0, 0, 1, 0),
       Vertex(Scale(w2, 9, 10), Scale(h2, 9, 10), Scale(-d2, 9, 10), 0, 1, 0, 1, 0, 0, 1, 1),
       Vertex(-w2, -h2, -d2, 0, -1, 0, -1, 0, 0, 1, 1),
       Vertex(w2, -h2, -d2, 0, -1, 0, -1, 0, 0, 0, 1),
       Vertex(w2, -h2, d2, 0, -1, 0, -1, 0, 0, 0, 0),
       Vertex(-w2, -h2, d2, 0, -1, 0, -1, 0, 0, 1, 0),
       Vertex(-w2, -h2, d2, -1, 0, 0, 0, 0, -1, 0, 1),
       Vertex(Scale(-w2, 9, 10), Scale(h2, 9, 10), Scale(d2, 9, 10), -1, 0, 0, 0, 0, -1, 0, 0),
       Vertex(Scale(-w2, 9, 10), Scale(h2, 9, 10), Scale(-d2, 9, 10), -1, 0, 0, 0, 0, -1, 1, 0),
       Vertex(-w2, -h2, -d2, -1, 0, 0, 0, 0, -1, 1, 1),
       Vertex(w2, -h2, -d2, 1, 0, 0, 0, 0, 1, 0, 1),
       Vertex(Scale(w2, 9, 10), Scale(h2, 9, 10), Scale(-d2, 9, 10), 1, 0, 0, 0, 0, 1, 0, 0),
       Vertex(Scale(w2, 9, 10), Scale(h2, 9, 10), Scale(d2, 9, 10), 1, 0, 0, 0, 0, 1, 1, 0),
       Vertex(w2, -h2, d2, 1, 0, 0, 0, 0, 1, 1, 1),
       Vertex(-w2, -h2, -d2, 0, 0, -1, 1, 0, 0, 0, 1),
       Vertex(Scale(-w2, 9, 10), Scale(h2, 9, 10), Scale(-d2, 9, 10), 0, 0, -1, 1, 0, 0, 0, 0),
       Vertex(Scale(w2, 9, 10), Scale(h2, 9, 10), Scale(-d2, 9, 10), 0, 0, -1, 1, 0, 0, 1, 0),
       Vertex(w2, -h2, -d2, 0, 0, -1, 1, 0, 0, 1, 1),
       Vertex(-w2, -h2, d2, 0, 0, 1, -1, 0, 0, 1, 1),
       Vertex(w2, -h2, d2, 0, 0, 1, -1, 0, 0, 0, 1),
       Vertex(Scale(w2, 9, 10), Scale(h2, 9, 10), Scale(d2, 9, 10), 0, 0, 1, -1, 0, 0, 0, 0),
       Vertex(Scale(-w2, 9, 10), Scale(h2, 9, 10), Scale(d2, 9, 10), 0, 0, 1, -1, 0, 0, 1, 0),
       Vertex(Scale(-w2, 9, 10), Scale(h2, 9, 10), Scale(-d2, 9, 10), 0, 1, 0, 1, 0, 0, 0, 1),
       Vertex(Scale(-w2, 9, 10), Scale(h2, 9, 10), Scale(d2, 9, 10), 0, 1, 0, 1, 0, 0, 0, 0),
       Vertex(Scale(w2, 9, 10), Scale(h2, 9, 10), Scale(d2, 9, 10), 0, 1, 0, 1, 0, 0, 1, 0),
       Vertex(Scale(w2, 9, 10), Scale(h2, 9, 10), Scale(-d2, 9, 10), 0, 1, 0, 1, 0, 0, 1, 1),
       Vertex(-w2, -h2, -d2, 0, -1, 0, -1, 0, 0, 1, 1),
       Vertex(w2, -h2, -d2, 0, -1, 0, -1, 0, 0, 0, 1),
       Vertex(w2, -h2, d2, 0, -1, 0, -1, 0, 0, 0, 0),
       Vertex(-w2, -h2, d2, 0, -1, 0, -1, 0, 0, 1, 0),
       Vertex(-w2, -h2, d2, -1, 0, 0, 0, 0, -1, 0, 1),
       Vertex(Scale(-w2, 9, 10), Scale(h2, 9, 10), Scale(d2, 9, 10), -1, 0, 0, 0, 0, -1, 0, 0),
       Vertex(Scale(-w2, 9, 10), Scale(h2, 9, 10), Scale(-d2, 9, 10), -1, 0, 0, 0, 0, -1, 1, 0),
       Vertex(-w2, -h2, -d2, -1, 0, 0, 0, 0, -1, 1, 1),
       Vertex(w2, -h2, -d2, 1, 0, 0, 0, 0, 1, 0, 1),
       Vertex(Scale(w2, 9, 10), Scale(h2, 9, 10), Scale(-d2, 9, 10), 1, 0, 0, 0, 0, 1, 0, 0),
       Vertex(Scale(w2, 9, 10), Scale(h2, 9, 10), Scale(d2, 9, 10), 1, 0, 0, 0, 0, 1, 1, 0),
       Vertex(w2, -h2, d2, 1, 0, 0, 0, 0, 1, 1, 1),
       Vertex(-w2, -h2, -d2, 0, 0, -1, 1, 0, 0, 0, 1),
       Vertex(Scale(-w2, 9, 10), Scale(h2, 9, 10), Scale(-d2, 9, 10), 0, 0, -1, 1, 0, 0, 0, 0),
       Vertex(Scale(w2, 9, 10), Scale(h2, 9, 10), Scale(-d2, 9, 10), 0, 0, -1, 1, 0, 0, 1, 0),
       Vertex(w2, -h2, -d2, 0, 0, -1, 1, 0, 0, 1, 1),
       Vertex(-w2, -h2, d2, 0, 0, 1, -1, 0, 0, 1, 1),
       Vertex(w2, -h2, d2, 0, 0, 1, -1, 0, 0, 0, 1),
       Vertex(Scale(w2, 9, 10), Scale(h2, 9, 10), Scale(d2, 9, 10), 0, 0, 1, -1, 0, 0, 0, 0),
       Vertex(Scale(-w2, 9, 10), Scale(h2, 9, 10), Scale(d2, 9, 10), 0, 0, 1, -1, 0, 0, 1, 0),
       Vertex(Scale(-w2, 9, 10), Scale(h2, 9, 10), Scale(-d2, 9, 10), 0, 1, 0, 1, 0, 0, 0, 1),
       Vertex(Scale(-w2, 9, 10), Scale(h2, 9, 10), Scale(d2, 9, 10), 0, 1, 0, 1, 0, 0, 0, 0),
       Vertex(Scale(w2, 9, 10), Scale(h2, 9, 10), Scale(d2, 9, 10), 0, 1, 0, 1, 0, 0, 1, 0),
       Vertex(Scale(w2, 9, 10), Scale(h2, 9, 10), Scale(-d2, 9, 10), 0, 1, 0, 1, 0, 0, 1, 1),
       Vertex(-w2, -h2, -d2, 0, -1, 0, -1, 0, 0, 1, 1),
       Vertex(w2, -h2, -d2, 0, -1, 0, -1, 0, 0, 0, 1),
       Vertex(w2, -h2, d2, 0, -1, 0, -1, 0, 0, 0, 0),
       Vertex(-w2, -h2, d2, 0, -1, 0, -1, 0, 0, 1, 0),
       Vertex(-w2, -h2, d2, -1, 0, 0, 0, 0, -1, 0, 1),
       Vertex(Scale(-w2, 9, 10), Scale(h2, 9, 10), Scale(d2, 9, 10), -1, 0, 0, 0, 0, -1, 0, 0),
       Vertex(Scale(-w2, 9, 10), Scale(h2, 9, 10), Scale(-d2, 9, 10), -1, 0, 0, 0, 0, -1, 1, 0),
       Vertex(-w2, -h2, -d2, -1, 0, 0, 0, 0, -1, 1, 1),
       Vertex(w2, -h2, -d2, 1, 0, 0, 0, 0, 1, 0, 1),
       Vertex(Scale(w2, 9, 10), Scale(h2, 9, 10), Scale(-d2, 9, 10), 1, 0, 0, 0, 0, 1, 0, 0),
       Vertex(Scale(w2, 9, 10), Scale(h2, 9, 10), Scale(d2, 9, 10), 1, 0, 0, 0, 0, 1, 1, 0),
       Vertex(w2, -h2, d2, 1, 0, 0, 0, 0, 1, 1, 1),
       Vertex(-w2, -h2, -d2, 0, 0, -1, 1, 0, 0, 0, 1),
       Vertex(Scale(-w2, 9, 10), Scale(h2, 9, 10), Scale(-d2, 9, 10), 0, 0, -1, 1, 0, 0, 0, 0),
       Vertex(Scale(w2, 9, 10), Scale(h2, 9, 10), Scale(-d2, 9, 10), 0, 0, -1, 1, 0, 0, 1, 0),
       Vertex(w2, -h2, -d2, 0, 0, -1, 1, 0, 0, 1, 1),
       Vertex(-w2, -h2, d2, 0, 0, 1, -1, 0, 0, 1, 1),
       Vertex(w2, -h2, d2, 0, 0, 1, -1, 0, 0, 0, 1),
       Vertex(Scale(w2, 9, 10), Scale(h2, 9, 10), Scale(d2, 9, 10), 0, 0, 1, -1, 0, 0, 0, 0),
       Vertex(Scale(-w2, 9, 10), Scale(h2, 9, 10), Scale(d2, 9, 10), 0, 0, 1, -1, 0, 0, 1, 0),
       Vertex(Scale(-w2, 9, 10), Scale(h2, 9, 10), Scale(-d2, 9, 10), 0, 1, 0, 1, 0, 0, 0, 1),
       Vertex(Scale(-w2, 9, 10), Scale(h2, 9, 10), Scale(d2, 9, 10), 0, 1, 0, 1, 0, 0, 0, 0),
       Vertex(Scale(w2, 9, 10), Scale(h2, 9, 10), Scale(d2, 9, 10), 0, 1, 0, 1, 0, 0, 1, 0),
       Vertex(Scale(w2, 9, 10), Scale(h2, 9, 10), Scale(-d2, 9, 10), 0, 1, 0, 1, 0, 0, 1, 1),
       Vertex(-w2, -h2, -d2, 0, -1, 0, -1, 0, 0, 1, 1),
       Vertex(w2, -h2, -d2, 0, -1, 0, -1, 0, 0, 0, 1),
       Vertex(w2, -h2, d2, 0, -1, 0, -1, 0, 0, 0, 0),
       Vertex(-w2, -h2, d2, 0, -1, 0, -1, 0, 0, 1, 0),
       Vertex(-w2, -h2, d2, -1, 0, 0, 0, 0, -1, 0, 1),
       Vertex(Scale(-w2, 9, 10), Scale(h2, 9, 10), Scale(d2, 9, 10), -1, 0, 0, 0, 0, -1, 0, 0),
       Vertex(Scale(-w2, 9, 10), Scale(h2, 9, 10), Scale(-d2, 9, 10), -1, 0, 0, 0, 0, -1, 1, 0),
       Vertex(-w2, -h2, -d2, -1, 0, 0, 0, 0, -1, 1, 1),
       Vertex(w2, -h2, -d2, 1, 0, 0, 0, 0, 1, 0, 1),
       Vertex(Scale(w2, 9, 10), Scale(h2, 9, 10), Scale(-d2, 9, 10), 1, 0, 0, 0, 0, 1, 0, 0),
       Vertex(Scale(w2, 9, 10), Scale(h2, 9, 10), Scale(d2, 9, 10), 1, 0, 0, 0, 0, 1, 1, 0),
       Vertex(w2, -h2, d2, 1, 0, 0, 0, 0, 1, 1, 1),
       Vertex(-w2, -h2, -d2, 0, 0, -1, 1, 0, 0, 0, 1),
       Vertex(Scale(-w2, 9, 10), Scale(h2, 9, 10), Scale(-d2, 9, 10), 0, 0, -1, 1, 0, 0, 0, 0),
       Vertex(Scale(w2, 9, 10), Scale(h2, 9, 10), Scale(-d2, 9, 10), 0, 0, -1, 1, 0, 0, 1, 0),
       Vertex(w2, -h2, -d2, 0, 0, -1, 1, 0, 0, 1, 1),
       Vertex(-w2, -h2, d2, 0, 0, 1, -1, 0, 0, 1, 1),
       Vertex(w2, -h2, d2, 0, 0, 1, -1, 0, 0, 0, 1),
       Vertex(Scale(w2, 9, 10), Scale(h2, 9, 10), Scale(d2, 9, 10), 0, 0, 1, -1, 0, 0, 0, 0),
       Vertex(Scale(-w2, 9, 10), Scale(h2, 9, 10), Scale(d2, 9, 10), 0, 0, 1, -1, 0, 0, 1, 0),
       Vertex(Scale(-w2, 9, 10), Scale(h2, 9, 10), Scale(-d2, 9, 10), 0, 1, 0, 1, 0, 0, 0, 1),
       Vertex(Scale(-w2, 9, 10), Scale(h2, 9, 10), Scale(d2, 9, 10), 0, 1, 0, 1, 0, 0, 0, 0),
       Vertex(Scale(w2, 9, 10), Scale(h2, 9, 10), Scale(d2, 9, 10), 0, 1, 0, 1, 0, 0, 1, 0),
       Vertex(Scale(w2, 9, 10), Scale(h2, 9, 10), Scale(-d2, 9, 10), 0, 1, 0, 1, 0, 0, 1, 1),
       Vertex(-w2, -h2, -d2, 0, -1, 0, -1, 0, 0, 1, 1),
       Vertex(w2, -h2, -d2, 0, -1, 0, -1, 0, 0, 0, 1),
       Vertex(w2, -h2, d2, 0, -1, 0, -1, 0, 0, 0, 0),
       Vertex(-w2, -h2, d2, 0, -1, 0, -1, 0, 0, 1, 0),
       Vertex(-w2, -h2, d2, -1, 0, 0, 0, 0, -1, 0, 1),
       Vertex(Scale(-w2, 9, 10), Scale(h2, 9, 10), Scale(d2, 9, 10), -1, 0, 0, 0, 0, -1, 0, 0),
       Vertex(Scale(-w2, 9, 10), Scale(h2, 9, 10), Scale(-d2, 9, 10), -1, 0, 0, 0, 0, -1, 1, 0),
       Vertex(-w2, -h2, -d2, -1, 0, 0, 0, 0, -1, 1, 1),
       Vertex(w2, -h2, -d2, 1, 0, 0, 0, 0, 1, 0, 1),
       Vertex(Scale(w2, 9, 10), Scale(h2, 9, 10), Scale(-d2, 9, 10), 1, 0, 0, 0, 0, 1, 0, 0),
       Vertex(Scale(w2, 9, 10), Scale(h2, 9, 10), Scale(d2, 9, 10), 1, 0, 0, 0, 0, 1, 1, 0),
       Vertex(w2, -h2, d2, 1, 0, 0, 0, 0, 1, 1, 1),
       Vertex(-w2, -h2, -d2, 0, 0, -1, 1, 0, 0, 0, 1),
       Vertex(Scale(-w2, 9, 10), Scale(h2, 9, 10), Scale(-d2, 9, 10), 0, 0, -1, 1, 0, 0, 0, 0),
       Vertex(Scale(w2, 9, 10), Scale(h2, 9, 10), Scale(-d2, 9, 10), 0, 0, -1, 1, 0, 0, 1, 0),
       Vertex(w2, -h2, -d2, 0, 0, -1, 1, 0, 0, 1, 1),
       Vertex(-w2, -h2, d2, 0, 0, 1, -1, 0, 0, 1, 1),
       Vertex(w2, -h2, d2, 0, 0, 1, -1, 0, 0, 0, 1),
       Vertex(Scale(w2, 9, 10), Scale(h2, 9, 10), Scale(d2, 9, 10), 0, 0, 1, -1, 0, 0, 0, 0),
       Vertex(Scale(-w2, 9, 10), Scale(h2, 9, 10), Scale(d2, 9, 10), 0, 0, 1, -1, 0, 0, 1, 0),
       Vertex(Scale(-w2, 9, 10), Scale(h2, 9, 10), Scale(-d2, 9, 10), 0, 1, 0, 1, 0, 0, 0, 1),
       Vertex(Scale(-w2, 9, 10), Scale(h2, 9, 10), Scale(d2, 9, 10), 0, 1, 0, 1, 0, 0, 0, 0),
       Vertex(Scale(w2, 9, 10), Scale(h2, 9, 10), Scale(d2, 9, 10), 0, 1, 0, 1, 0, 0, 1, 0),
       Vertex(Scale(w2, 9, 10), Scale(h2, 9, 10), Scale(-d2, 9, 10), 0, 1, 0, 1, 0, 0, 1, 1),
       Vertex(-w2, -h2, -d2, 0, -1, 0, -1, 0, 0, 1, 1),
       Vertex(w2, -h2, -d2, 0, -1, 0, -1, 0, 0, 0, 1),
       Vertex(w2, -h2, d2, 0, -1, 0, -1, 0, 0, 0, 0),
       Vertex(-w2, -h2, d2, 0, -1, 0, -1, 0, 0, 1, 0),
       Vertex(-w2, -h2, d2, -1, 0, 0, 0, 0, -1, 0, 1),
       Vertex(Scale(-w2, 9, 10), Scale(h2, 9, 10), Scale(d2, 9, 10), -1, 0, 0, 0, 0, -1, 0, 0),
       Vertex(Scale(-w2, 9, 10), Scale(h2, 9, 10), Scale(-d2, 9, 10), -1, 0, 0, 0, 0, -1, 1, 0),
       Vertex(-w2, -h2, -d2, -1, 0, 0, 0, 0, -1, 1, 1),
       Vertex(w2, -h2, -d2, 1, 0, 0, 0, 0, 1, 0, 1),
       Vertex(Scale(w2, 9, 10), Scale(h2, 9, 10), Scale(-d2, 9, 10), 1, 0, 0, 0, 0, 1, 0, 0),
       Vertex(Scale(w2, 9, 10), Scale(h2, 9, 10), Scale(d2, 9, 10), 1, 0, 0, 0, 0, 1, 1, 0),
       Vertex(w2, -h2, d2, 1, 0, 0, 0, 0, 1, 1, 1),
       Vertex(-w2, -h2, -d2, 0, 0, -1, 1, 0, 0, 0, 1),
       Vertex(Scale(-w2, 9, 10), Scale(h2, 9, 10), Scale(-d2, 9, 10), 0, 0, -1, 1, 0, 0, 0, 0),
       Vertex(Scale(w2, 9, 10), Scale(h2, 9, 10), Scale(-d2, 9, 10), 0, 0, -1, 1, 0, 0, 1, 0),
       Vertex(w2, -h2, -d2, 0, 0, -1, 1, 0, 0, 1, 1),
       Vertex(-w2, -h2, d2, 0, 0, 1, -1, 0, 0, 1, 1),
       Vertex(w2, -h2, d2, 0, 0, 1, -1, 0, 0, 0, 1),
       Vertex(Scale(w2, 9, 10), Scale(h2, 9, 10), Scale(d2, 9, 10), 0, 0, 1, -1, 0, 0, 0, 0),
       Vertex(Scale(-w2, 9, 10), Scale(h2, 9, 10), Scale(d2, 9, 10), 0, 0, 1, -1, 0, 0, 1, 0),
       Vertex(Scale(-w2, 9, 10), Scale(h2, 9, 10), Scale(-d2, 9, 10), 0, 1, 0, 1, 0, 0, 0, 1),
       Vertex(Scale(-w2, 9, 10), Scale(h2, 9, 10), Scale(d2, 9, 10), 0, 1, 0, 1, 0, 0, 0, 0),
       Vertex(Scale(w2, 9, 10), Scale(h2, 9, 10), Scale(d2, 9, 10), 0, 1, 0, 1, 0, 0, 1, 0),
       Vertex(Scale(w2, 9, 10), Scale(h2, 9, 10), Scale(-d2, 9, 10), 0, 1, 0, 1, 0, 0, 1, 1),
       Vertex(-w2, -h2, -d2, 0, -1, 0, -1, 0, 0, 1, 1),
       Vertex(w2, -h2, -d2, 0, -1, 0, -1, 0, 0, 0, 1)
    >>
    \o
    [s \in 1..1 |-> junkVertex]
    \o
    <<
       Vertex(-w2, -h2, d2, 0, -1, 0, -1, 0, 0, 1, 0),
       Vertex(-w2, -h2, d2, -1, 0, 0, 0, 0, -1, 0, 1),
       Vertex(Scale(-w2, 9, 10), Scale(h2, 9, 10), Scale(d2, 9, 10), -1, 0, 0, 0, 0, -1, 0, 0),
       Vertex(Scale(-w2, 9, 10), Scale(h2, 9, 10), Scale(-d2, 9, 10), -1, 0, 0, 0, 0, -1, 1, 0),
       Vertex(-w2, -h2, -d2, -1, 0, 0, 0, 0, -1, 1, 1),
       Vertex(w2, -h2, -d2, 1, 0, 0, 0, 0, 1, 0, 1),
       Vertex(Scale(w2, 9, 10), Scale(h2, 9, 10), Scale(-d2, 9, 10), 1, 0, 0, 0, 0, 1, 0, 0),
       Vertex(Scale(w2, 9, 10), Scale(h2, 9, 10), Scale(d2, 9, 10), 1, 0, 0, 0, 0, 1, 1, 0),
       Vertex(w2, -h2, d2, 1, 0, 0, 0, 0, 1, 1, 1),
       Vertex(-w2, -h2, -d2, 0, 0, -1, 1, 0, 0, 0, 1),
       Vertex(Scale(-w2, 9, 10), Scale(h2, 9, 10), Scale(-d2, 9, 10), 0, 0, -1, 1, 0, 0, 0, 0),
       Vertex(Scale(w2, 9, 10), Scale(h2, 9, 10), Scale(-d2, 9, 10), 0, 0, -1, 1, 0, 0, 1, 0),
       Vertex(w2, -h2, -d2, 0, 0, -1, 1, 0, 0, 1, 1),
       Vertex(-w2, -h2, d2, 0, 0, 1, -1, 0, 0, 1, 1),
       Vertex(w2, -h2, d2, 0, 0, 1, -1, 0, 0, 0, 1),
       Vertex(Scale(w2, 9, 10), Scale(h2, 9, 10), Scale(d2, 9, 10), 0, 0, 1, -1, 0, 0, 0, 0),
       Vertex(Scale(-w2, 9, 10), Scale(h2, 9, 10), Scale(d2, 9, 10), 0, 0, 1, -1, 0, 0, 1, 0),
       Vertex(Scale(-w2, 9, 10), Scale(h2, 9, 10), Scale(-d2, 9, 10), 0, 1, 0, 1, 0, 0, 0, 1),
       Vertex(Scale(-w2, 9, 10), Scale(h2, 9, 10), Scale(d2, 9, 10), 0, 1, 0, 1, 0, 0, 0, 0),
       Vertex(Scale(w2, 9, 10), Scale(h2, 9, 10), Scale(d2, 9, 10), 0, 1, 0, 1, 0, 0, 1, 0),
       Vertex(Scale(w2, 9, 10), Scale(h2, 9, 10), Scale(-d2, 9, 10), 0, 1, 0, 1, 0, 0, 1, 1),
       Vertex(-w2, -h2, -d2, 0, -1, 0, -1, 0, 0, 1, 1),
       Vertex(w2, -h2, -d2, 0, -1, 0, -1, 0, 0, 0, 1),
       Vertex(w2, -h2, d2, 0, -1, 0, -1, 0, 0, 0, 0),
       Vertex(-w2, -h2, d2, 0, -1, 0, -1, 0, 0, 1, 0),
       Vertex(-w2, -h2, d2, -1, 0, 0, 0, 0, -1, 0, 1),
       Vertex(Scale(-w2, 9, 10), Scale(h2, 9, 10), Scale(d2, 9, 10), -1, 0, 0, 0, 0, -1, 0, 0),
       Vertex(Scale(-w2, 9, 10), Scale(h2, 9, 10), Scale(-d2, 9, 10), -1, 0, 0, 0, 0, -1, 1, 0),
       Vertex(-w2, -h2, -d2, -1, 0, 0, 0, 0, -1, 1, 1),
       Vertex(w2, -h2, -d2, 1, 0, 0, 0, 0, 1, 0, 1),
       Vertex(Scale(w2, 9, 10), Scale(h2, 9, 10), Scale(-d2, 9, 10), 1, 0, 0, 0, 0, 1, 0, 0),
       Vertex(Scale(w2, 9, 10), Scale(h2, 9, 10), Scale(d2, 9, 10), 1, 0, 0, 0, 0, 1, 1, 0),
       Vertex(w2, -h2, d2, 1, 0, 0, 0, 0, 1, 1, 1)
    >>

ChocolateIndices(junkIndex) ==
    <<
      0, 1, 2, 0, 2, 3,
      4, 5, 6, 4, 6, 7,
      8, 9, 10, 8, 10, 11,
      12, 13, 14, 12, 14, 15,
      16, 17, 18, 16, 18, 19,
      20, 21, 22, 20, 22, 23
    >>
    \o
    [s \in 1..324 |-> junkIndex]
    \o
    <<
      0, 1, 2, 0, 2, 3,
      4, 5, 6, 4, 6, 7,
      8, 9, 10, 8, 10, 11,
      12, 13, 14, 12, 14, 15,
      16, 17, 18, 16, 18, 19,
      20, 21, 22, 20, 22, 23
    >>

\* CreateBar2: Vertex v[48] (48 slots assigned), uint32 i[84] (84 slots assigned)
Bar2Vertices(width, height, depth) ==
  LET w2 == Scale(width, 1, 2)
      h2 == Scale(height, 1, 2)
      d2 == Scale(depth, 1, 2)
  IN
    <<
       Vertex(-w2, -h2, -d2, 0, 0, -1, 1, 0, 0, 0, 1),
       Vertex(-w2, h2, -d2, 0, 0, -1, 1, 0, 0, 0, 0),
       Vertex(w2, h2, -d2, 0, 0, -1, 1, 0, 0, 1, 0),
       Vertex(w2, -h2, -d2, 0, 0, -1, 1, 0, 0, 1, 1),
       Vertex(-w2, -h2, d2, 0, 0, 1, -1, 0, 0, 1, 1),
       Vertex(w2, -h2, d2, 0, 0, 1, -1, 0, 0, 0, 1),
       Vertex(w2, h2, d2, 0, 0, 1, -1, 0, 0, 0, 0),
       Vertex(-w2, h2, d2, 0, 0, 1, -1, 0, 0, 1, 0),
       Vertex(-w2, h2, -d2, 0, 1, 0, 1, 0, 0, 0, 1),
       Vertex(-w2, h2, d2, 0, 1, 0, 1, 0, 0, 0, 0),
       Vertex(w2, h2, d2, 0, 1, 0, 1, 0, 0, 1, 0),
       Vertex(w2, h2, -d2, 0, 1, 0, 1, 0, 0, 1, 1),
       Vertex(-w2, -h2, -d2, 0, -1, 0, -1, 0, 0, 1, 1),
       Vertex(w2, -h2, -d2, 0, -1, 0, -1, 0, 0, 0, 1),
       Vertex(w2, -h2, d2, 0, -1, 0, -1, 0, 0, 0, 0),
       Vertex(-w2, -h2, d2, 0, -1, 0, -1, 0, 0, 1, 0),
       Vertex(-w2, -h2, d2, -1, 0, 0, 0, 0, -1, 0, 1),
       Vertex(-w2, h2, d2, -1, 0, 0, 0, 0, -1, 0, 0),
       Vertex(-w2, h2, -d2, -1, 0, 0, 0, 0, -1, 1, 0),
       Vertex(-w2, -h2, -d2, -1, 0, 0, 0, 0, -1, 1, 1),
       Vertex(w2, -h2, -d2, 1, 0, 0, 0, 0, 1, 0, 1),
       Vertex(w2, h2, -d2, 1, 0, 0, 0, 0, 1, 0, 0),
       Vertex(w2, h2, d2, 1, 0, 0, 0, 0, 1, 1, 0),
       Vertex(w2, -h2, d2, 1, 0, 0, 0, 0, 1, 1, 1),
       Vertex(Scale(-w2, 19, 20), Scale(-h2, 19, 20), Scale(-d2, 19, 20), 0, 0, -1, 1, 0, 0, 0, 1),
       Vertex(Scale(-w2, 19, 20), Scale(h2, 19, 20), Scale(-d2, 19, 20), 0, 0, -1, 1, 0, 0, 0, 0),
       Vertex(Scale(w2, 19, 20), Scale(h2, 19, 20), Scale(-d2, 19, 20), 0, 0, -1, 1, 0, 0, 1, 0),
       Vertex(Scale(w2, 19, 20), Scale(-h2, 19, 20), Scale(-d2, 19, 20), 0, 0, -1, 1, 0, 0, 1, 1),
       Vertex(Scale(-w2, 19, 20), Scale(-h2, 19, 20), Scale(d2, 19, 20), 0, 0, 1, -1, 0, 0, 1, 1),
       Vertex(Scale(w2, 19, 20), Scale(-h2, 19, 20), Scale(d2, 19, 20), 0, 0, 1, -1, 0, 0, 0, 1),
       Vertex(Scale(w2, 19, 20), Scale(h2, 19, 20), Scale(d2, 19, 20), 0, 0, 1, -1, 0, 0, 0, 0),
       Vertex(Scale(-w2, 19, 20), Scale(h2, 19, 20), Scale(d2, 19, 20), 0, 0, 1, -1, 0, 0, 1, 0),
       Vertex(Scale(-w2, 19, 20), Scale(h2, 19, 20), Scale(-d2, 19, 20), 0, 1, 0, 1, 0, 0, 0, 1),
       Vertex(Scale(-w2, 19, 20), Scale(h2, 19, 20), Scale(d2, 19, 20), 0, 1, 0, 1, 0, 0, 0, 0),
       Vertex(Scale(w2, 19, 20), Scale(h2, 19, 20), Scale(d2, 19, 20), 0, 1, 0, 1, 0, 0, 1, 0),
       Vertex(Scale(w2, 19, 20), Scale(h2, 19, 20), Scale(-d2, 19, 20), 0, 1, 0, 1, 0, 0, 1, 1),
       Vertex(Scale(-w2, 19, 20), Scale(-h2, 19, 20), Scale(-d2, 19, 20), 0, -1, 0, -1, 0, 0, 1, 1),
       Vertex(Scale(w2, 19, 20), Scale(-h2, 19, 20), Scale(-d2, 19, 20), 0, -1, 0, -1, 0, 0, 0, 1),
       Vertex(Scale(w2, 19, 20), Scale(-h2, 19, 20), Scale(d2, 19, 20), 0, -1, 0, -1, 0, 0, 0, 0),
       Vertex(Scale(-w2, 19, 20), Scale(-h2, 19, 20), Scale(d2, 19, 20), 0, -1, 0, -1, 0, 0, 1, 0),
       Vertex(Scale(-w2, 19, 20), Scale(-h2, 19, 20), Scale(d2, 19, 20), -1, 0, 0, 0, 0, -1, 0, 1),
       Vertex(Scale(-w2, 19, 20), Scale(h2, 19, 20), Scale(d2, 19, 20), -1, 0, 0, 0, 0, -1, 0, 0),
       Vertex(Scale(-w2, 19, 20), Scale(h2, 19, 20), Scale(-d2, 19, 20), -1, 0, 0, 0, 0, -1, 1, 0),
       Vertex(Scale(-w2, 19, 20), Scale(-h2, 19, 20), Scale(-d2, 19, 20), -1, 0, 0, 0, 0, -1, 1, 1),
       Vertex(Scale(w2, 19, 20), Scale(-h2, 19, 20), Scale(-d2, 19, 20), 1, 0, 0, 0, 0, 1, 0, 1),
       Vertex(Scale(w2, 19, 20), Scale(h2, 19, 20), Scale(-d2, 19, 20), 1, 0, 0, 0, 0, 1, 0, 0),
       Vertex(Scale(w2, 19, 20), Scale(h2, 19, 20), Scale(d2, 19, 20), 1, 0, 0, 0, 0, 1, 1, 0),
       Vertex(Scale(w2, 19, 20), Scale(-h2, 19, 20), Scale(d2, 19, 20), 1, 0, 0, 0, 0, 1, 1, 1)
    >>

Bar2Indices ==
    <<
      0, 1, 2, 0, 2, 3,
      4, 5, 6, 4, 6, 7,
      12, 13, 14, 12, 14, 15,
      16, 17, 18, 16, 18, 19,
      20, 21, 22, 20, 22, 23,
      24, 26, 25, 24, 27, 26,
      28, 30, 29, 28, 31, 30,
      36, 38, 37, 36, 39, 38,
      40, 42, 41, 40, 43, 42,
      44, 46, 45, 44, 47, 46,
      8, 9, 33, 8, 33, 32,
      9, 10, 34, 9, 34, 33,
      10, 11, 35, 10, 35, 34,
      11, 8, 32, 11, 32, 35
    >>

\* CreateCandy: Vertex v[20] (20 slots assigned), uint32 i[108] (108 slots assigned)
CandyVertices(width, height, depth) ==
  LET w2 == Scale(width, 1, 2)
      h2 == Scale(height, 1, 2)
      d2 == Scale(depth, 1, 2)
  IN
    <<
       Vertex(Scale(w2, 0, 1), h2, Scale(d2, 0, 1), 0, 0, -1, 1, 0, 0, 0, 1),
       Vertex(Scale(w2, -1, 2), h2, Scale(d2, -1, 2), 0, 0, -1, 1, 0, 0, 0, 0),
       Vertex(Scale(w2, -3, 4), h2, Scale(d2, 0, 1), 0, 0, -1, 1, 0, 0, 1, 0),
       Vertex(Scale(w2, -1, 2), h2, Scale(d2, 1, 2), 0, 0, -1, 1, 0, 0, 1, 1),
       Vertex(Scale(w2, 1, 2), h2, Scale(d2, 1, 2), 0, 0, 1, -1, 0, 0, 1, 1),
       Vertex(Scale(w2, 3, 4), h2, Scale(d2, 0, 1), 0, 0, 1, -1, 0, 0, 0, 1),
       Vertex(Scale(w2, 1, 2), h2, Scale(d2, -1, 2), 0, 0, 1, -1, 0, 0, 0, 0),
       Vertex(Scale(w2, 0, 1), -h2, Scale(d2, 0, 1), 0, 0, -1, 1, 0, 0, 0, 1),
       Vertex(Scale(w2, -1, 2), -h2, Scale(d2, -1, 2), 0, 0, -1, 1, 0, 0, 0, 0),
       Vertex(Scale(w2, -3, 4), -h2, Scale(d2, 0, 1), 0, 0, -1, 1, 0, 0, 1, 0),
       Vertex(Scale(w2, -1, 2), -h2, Scale(d2, 1, 2), 0, 0, -1, 1, 0, 0, 1, 1),
       Vertex(Scale(w2, 1, 2), -h2, Scale(d2, 1, 2), 0, 0, 1, -1, 0, 0, 1, 1),
       Vertex(Scale(w2, 3, 4), -h2, Scale(d2, 0, 1), 0, 0, 1, -1, 0, 0, 0, 1),
       Vertex(Scale(w2, 1, 2), -h2, Scale(d2, -1, 2), 0, 0, 1, -1, 0, 0, 0, 0),
       Vertex(Scale((Scale(w2, 3, 2)), -1, 2), Fixed(0, 1), Scale((Scale(d2, 3, 2)), -1, 2), 0, 0, -1, 1, 0, 0, 0, 0),
       Vertex(Scale((Scale(w2, 3, 2)), -3, 4), Fixed(0, 1), Scale((Scale(d2, 3, 2)), 0, 1), 0, 0, -1, 1, 0, 0, 1, 0),
       Vertex(Scale((Scale(w2, 3, 2)), -1, 2), Fixed(0, 1), Scale((Scale(d2, 3, 2)), 1, 2), 0, 0, -1, 1, 0, 0, 1, 1),
       Vertex(Scale((Scale(w2, 3, 2)), 1, 2), Fixed(0, 1), Scale((Scale(d2, 3, 2)), 1, 2), 0, 0, 1, -1, 0, 0, 1, 1),
       Vertex(Scale((Scale(w2, 3, 2)), 3, 4), Fixed(0, 1), Scale((Scale(d2, 3, 2)), 0, 1), 0, 0, 1, -1, 0, 0, 0, 1),
       Vertex(Scale((Scale(w2, 3, 2)), 1, 2), Fixed(0, 1), Scale((Scale(d2, 3, 2)), -1, 2), 0, 0, 1, -1, 0, 0, 0, 0)
    >>

CandyIndices ==
    <<
      0, 1, 2, 0, 2, 3,
      0, 3, 4, 0, 4, 5,
      0, 5, 6, 0, 6, 1,
      7, 9, 8, 7, 10, 9,
      7, 11, 10, 7, 12, 11,
      7, 13, 12, 7, 8, 13,
      1, 14, 2, 2, 15, 3,
      3, 16, 4, 4, 17, 5,
      5, 18, 6, 6, 19, 1,
      14, 15, 2, 15, 16, 3,
      16, 17, 4, 17, 18, 5,
      18, 19, 6, 19, 14, 1,
      14, 8, 15, 15, 9, 16,
      16, 10, 17, 17, 11, 18,
      18, 12, 19, 19, 13, 14,
      8, 9, 15, 9, 10, 16,
      10, 11, 17, 11, 12, 18,
      12, 13, 19, 13, 8, 14
    >>

\* CreateTetrahedron: Vertex v[4] (4 slots assigned), uint32 i[12] (12 slots assigned)
TetrahedronVertices(width, height, depth) ==
  LET w2 == Scale(width, 1, 2)
      h2 == Scale(height, 1, 2)
      d2 == Scale(depth, 1, 2)
  IN
    <<
       Vertex(Scale(w2, 0, 1), Scale(h2, 1, 1), Scale(d2, -1, 2), 0, 0, -1, 1, 0, 0, 0, 1),
       Vertex(Scale(w2, -1, 1), Scale(h2, 0, 1), Scale(d2, -1, 1), 0, 0, -1, 1, 0, 0, 0, 0),
       Vertex(Scale(w2, 0, 1), Scale(h2, 0, 1), Scale(d2, 1, 1), 0, 0, -1, 1, 0, 0, 1, 0),
       Vertex(Scale(w2, 1, 1), Scale(h2, 0, 1), Scale(d2, -1, 1), 0, 0, -1, 1, 0, 0, 1, 1)
    >>

TetrahedronIndices ==
    <<
      2, 1, 3, 0, 3, 1,
      0, 1, 2, 0, 2, 3
    >>

\* CreatePyramid: Vertex v[5] (5 slots assigned), uint32 i[18] (18 slots assigned)
PyramidVertices(width, height, depth) ==
  LET w2 == Scale(width, 1, 2)
      h2 == Scale(height, 1, 2)
      d2 == Scale(depth, 1, 2)
  IN
    <<
       Vertex(Scale(w2, 0, 1), Scale(h2, 1, 1), Scale(d2, 0, 1), 0, 0, -1, 1, 0, 0, 0, 1),
       Vertex(Scale(w2, -1, 1), Scale(h2, 0, 1), Scale(d2, -1, 1), 0, 0, -1, 1, 0, 0, 0, 0),
       Vertex(Scale(w2, -1, 1), Scale(h2, 0, 1), Scale(d2, 1, 1), 0, 0, -1, 1, 0, 0, 1, 0),
       Vertex(Scale(w2, 1, 1), Scale(h2, 0, 1), Scale(d2, 1, 1), 0, 0, -1, 1, 0, 0, 1, 1),
       Vertex(Scale(w2, 1, 1), Scale(h2, 0, 1), Scale(d2, -1, 1), 0, 0, -1, 1, 0, 0, 1, 1)
    >>

PyramidIndices ==
    <<
      4, 2, 1, 4, 3, 2,
      0, 4, 1, 0, 1, 2,
      0, 2, 3, 0, 3, 4
    >>

\* CreateWedge: Vertex v[6] (6 slots assigned), uint32 i[24] (24 slots assigned)
WedgeVertices(width, height, depth) ==
  LET w2 == Scale(width, 1, 2)
      h2 == Scale(height, 1, 2)
      d2 == Scale(depth, 1, 2)
  IN
    <<
       Vertex(Scale(w2, -1, 1), Scale(h2, 0, 1), Scale(d2, -1, 2), 0, 0, -1, 1, 0, 0, 0, 1),
       Vertex(Scale(w2, -1, 1), Scale(h2, 0, 1), Scale(d2, 1, 2), 0, 0, -1, 1, 0, 0, 0, 0),
       Vertex(Scale(w2, 1, 1), Scale(h2, 0, 1), Scale(d2, 1, 2), 0, 0, -1, 1, 0, 0, 1, 0),
       Vertex(Scale(w2, 1, 1), Scale(h2, 0, 1), Scale(d2, -1, 2), 0, 0, -1, 1, 0, 0, 1, 1),
       Vertex(Scale(w2, -1, 1), Scale(h2, 1, 1), Scale(d2, -1, 2), 0, 0, -1, 1, 0, 0, 1, 1),
       Vertex(Scale(w2, -1, 1), Scale(h2, 1, 1), Scale(d2, 1, 2), 0, 0, -1, 1, 0, 0, 1, 1)
    >>

WedgeIndices ==
    <<
      1, 0, 3, 1, 3, 2,
      1, 5, 4, 1, 4, 0,
      4, 5, 2, 4, 2, 3,
      0, 4, 3, 1, 2, 5
    >>

\* CreateHexagon: Vertex v[24] (14 slots assigned), uint32 i[72] (72 slots assigned)
HexagonVertices(width, height, depth, junkVertex) ==
  LET w2 == Scale(width, 1, 2)
      h2 == Scale(height, 1, 2)
      d2 == Scale(depth, 1, 2)
  IN
    <<
       Vertex(Scale(w2, 0, 1), Scale(h2, 0, 1), Scale(d2, 0, 1), 0, 0, -1, 1, 0, 0, 0, 1),
       Vertex(Scale(w2, -1, 2), Scale(h2, 0, 1), Scale(d2, -1, 2), 0, 0, -1, 1, 0, 0, 0, 0),
       Vertex(Scale(w2, -3, 4), Scale(h2, 0, 1), Scale(d2, 0, 1), 0, 0, -1, 1, 0, 0, 1, 0),
       Vertex(Scale(w2, -1, 2), Scale(h2, 0, 1), Scale(d2, 1, 2), 0, 0, -1, 1, 0, 0, 1, 1),
       Vertex(Scale(w2, 1, 2), Scale(h2, 0, 1), Scale(d2, 1, 2), 0, 0, 1, -1, 0, 0, 1, 1),
       Vertex(Scale(w2, 3, 4), Scale(h2, 0, 1), Scale(d2, 0, 1), 0, 0, 1, -1, 0, 0, 0, 1),
       Vertex(Scale(w2, 1, 2), Scale(h2, 0, 1), Scale(d2, -1, 2), 0, 0, 1, -1, 0, 0, 0, 0),
       Vertex(Scale((w2 + Fixed(1, 2)), 0, 1), Scale((h2 + Fixed(1, 2)), -3, 10), Scale((d2 + Fixed(1, 2)), 0, 1), 0, 0, -1, 1, 0, 0, 0, 1),
       Vertex(Scale((w2 + Fixed(1, 2)), -1, 2), Scale((h2 + Fixed(1, 2)), -3, 10), Scale((d2 + Fixed(1, 2)), -1, 2), 0, 0, -1, 1, 0, 0, 0, 0),
       Vertex(Scale((w2 + Fixed(1, 2)), -3, 4), Scale((h2 + Fixed(1, 2)), -3, 10), Scale((d2 + Fixed(1, 2)), 0, 1), 0, 0, -1, 1, 0, 0, 1, 0),
       Vertex(Scale((w2 + Fixed(1, 2)), -1, 2), Scale((h2 + Fixed(1, 2)), -3, 10), Scale((d2 + Fixed(1, 2)), 1, 2), 0, 0, -1, 1, 0, 0, 1, 1),
       Vertex(Scale((w2 + Fixed(1, 2)), 1, 2), Scale((h2 + Fixed(1, 2)), -3, 10), Scale((d2 + Fixed(1, 2)), 1, 2), 0, 0, 1, -1, 0, 0, 1, 1),
       Vertex(Scale((w2 + Fixed(1, 2)), 3, 4), Scale((h2 + Fixed(1, 2)), -3, 10), Scale((d2 + Fixed(1, 2)), 0, 1), 0, 0, 1, -1, 0, 0, 0, 1),
       Vertex(Scale((w2 + Fixed(1, 2)), 1, 2), Scale((h2 + Fixed(1, 2)), -3, 10), Scale((d2 + Fixed(1, 2)), -1, 2), 0, 0, 1, -1, 0, 0, 0, 0)
    >>
    \o
    [s \in 1..10 |-> junkVertex]

\* the index table with i[71] = 14, a slot of v[] that is never assigned
HexagonIndicesPastAssigned ==
    <<
      0, 1, 2, 0, 2, 3,
      0, 3, 4, 0, 4, 5,
      0, 5, 6, 0, 6, 1,
      7, 9, 8, 7, 10, 9,
      7, 11, 10, 7, 12, 11,
      7, 13, 12, 7, 8, 13,
      1, 8, 2, 2, 9, 3,
      3, 10, 4, 4, 11, 5,
      5, 12, 6, 6, 13, 1,
      8, 9, 2, 9, 10, 3,
      10, 11, 4, 11, 12, 5,
      12, 13, 6, 13, 8, 14
    >>

HexagonIndices ==
    <<
      0, 1, 2, 0, 2, 3,
      0, 3, 4, 0, 4, 5,
      0, 5, 6, 0, 6, 1,
      7, 9, 8, 7, 10, 9,
      7, 11, 10, 7, 12, 11,
      7, 13, 12, 7, 8, 13,
      1, 8, 2, 2, 9, 3,
      3, 10, 4, 4, 11, 5,
      5, 12, 6, 6, 13, 1,
      8, 9, 2, 9, 10, 3,
      10, 11, 4, 11, 12, 5,
      12, 13, 6, 13, 8, 1
    >>

\* CreateDiamond: Vertex v[40] (40 slots assigned), uint32 i[90] (72 slots assigned)
DiamondVertices(width, height, depth) ==
  LET w2 == Scale(width, 1, 2)
      h2 == Scale(height, 1, 2)
      d2 == Scale(depth, 1, 2)
  IN
    <<
       Vertex(Scale(w2, 0, 1), Scale(h2, 0, 1), Scale(d2, 1, 1), 0, 0, -1, 1, 0, 0, 0, 1),
       Vertex(Scale(w2, -1, 2), Scale(h2, 1, 2), Scale(d2, 0, 1), 0, 0, -1, 1, 0, 0, 0, 0),
       Vertex(Scale(w2, 1, 2), Scale(h2, 1, 2), Scale(d2, 0, 1), 0, 0, -1, 1, 0, 0, 1, 0),
       Vertex(Scale(w2, -1, 4), Scale(h2, 1, 1), Scale(d2, 1, 2), 0, 0, -1, 1, 0, 0, 1, 1),
       Vertex(Scale(w2, 1, 4), Scale(h2, 1, 1), Scale(d2, 1, 2), 0, 0, 1, -1, 0, 0, 1, 1),
       Vertex(Scale(w2, 0, 1), Scale(h2, 0, 1), Scale(d2, 1, 1), 0, 0, -1, 1, 0, 0, 0, 1),
       Vertex(Scale(w2, 1, 2), Scale(h2, 1, 2), Scale(d2, 0, 1), 0, 0, -1, 1, 0, 0, 1, 0),
       Vertex(Scale(w2, 1, 1), Scale(h2, 1, 2), Scale(d2, 1, 2), 0, 0, 1, -1, 0, 0, 1, 0),
       Vertex(Scale(w2, 1, 4), Scale(h2, 1, 1), Scale(d2, 1, 2), 0, 1, 0, 1, 0, 0, 0, 1),
       Vertex(Scale(w2, 1, 2), Scale(h2, 1, 1), Scale(d2, 3, 4), 0, 1, 0, 1, 0, 0, 0, 0),
       Vertex(Scale(w2, 0, 1), Scale(h2, 0, 1), Scale(d2, 1, 1), 0, 1, 0, 1, 0, 0, 1, 0),
       Vertex(Scale(w2, -1, 1), Scale(h2, 1, 2), Scale(d2, 1, 2), 0, 1, 0, 1, 0, 0, 1, 1),
       Vertex(Scale(w2, -1, 2), Scale(h2, 1, 2), Scale(d2, 0, 1), 0, -1, 0, -1, 0, 0, 1, 1),
       Vertex(Scale(w2, -1, 2), Scale(h2, 1, 1), Scale(d2, 3, 4), 0, -1, 0, -1, 0, 0, 0, 1),
       Vertex(Scale(w2, -1, 4), Scale(h2, 1, 1), Scale(d2, 1, 2), 0, -1, 0, -1, 0, 0, 0, 0),
       Vertex(Scale(w2, 0, 1), Scale(h2, 0, 1), Scale(d2, 1, 1), 0, -1, 0, -1, 0, 0, 1, 0),
       Vertex(Scale(w2, -1, 2), Scale(h2, 1, 2), Scale(d2, 2, 1), -1, 0, 0, 0, 0, -1, 0, 1),
       Vertex(Scale(w2, 1, 2), Scale(h2, 1, 2), Scale(d2, 2, 1), -1, 0, 0, 0, 0, -1, 0, 0),
       Vertex(Scale(w2, -1, 4), Scale(h2, 1, 1), Scale(d2, 3, 2), -1, 0, 0, 0, 0, -1, 1, 0),
       Vertex(Scale(w2, 1, 4), Scale(h2, 1, 1), Scale(d2, 3, 2), -1, 0, 0, 0, 0, -1, 1, 1),
       Vertex(Scale(w2, 0, 1), Scale(h2, 0, 1), Scale(d2, 1, 1), 1, 0, 0, 0, 0, 1, 0, 1),
       Vertex(Scale(w2, 1, 2), Scale(h2, 1, 2), Scale(d2, 2, 1), 1, 0, 0, 0, 0, 1, 0, 0),
       Vertex(Scale(w2, 1, 1), Scale(h2, 1, 2), Scale(d2, 3, 2), 1, 0, 0, 0, 0, 1, 1, 0),
       Vertex(Scale(w2, 1, 4), Scale(h2, 1, 1), Scale(d2, 3, 2), 1, 0, 0, 0, 0, 1, 1, 1),
       Vertex(Scale(w2, 1, 2), Scale(h2, 1, 1), Scale(d2, 5, 4), 0, 0, 1, -1, 0, 0, 1, 1),
       Vertex(Scale(w2, 0, 1), Scale(h2, 0, 1), Scale(d2, 1, 1), 0, 1, 0, 1, 0, 0, 1, 0),
       Vertex(Scale(w2, -1, 2), Scale(h2, 1, 2), Scale(d2, 2, 1), 0, 1, 0, 1, 0, 0, 1, 1),
       Vertex(Scale(w2, -1, 1), Scale(h2, 1, 2), Scale(d2, 3, 2), 0, -1, 0, -1, 0, 0, 1, 1),
       Vertex(Scale(w2, -1, 4), Scale(h2, 1, 1), Scale(d2, 3, 2), 0, 0, 1, -1, 0, 0, 1, 1),
       Vertex(Scale(w2, -1, 2), Scale(h2, 1, 1), Scale(d2, 5, 4), 0, -1, 0, -1, 0, 0, 0, 0),
       Vertex(Scale(w2, 0, 1), Scale(h2, 0, 1), Scale(d2, 1, 1), 0, 1, 0, 1, 0, 0, 1, 0),
       Vertex(Scale(w2, 1, 1), Scale(h2, 1, 2), Scale(d2, 1, 2), 0, 1, 0, 1, 0, 0, 1, 1),
       Vertex(Scale(w2, 1, 1), Scale(h2, 1, 2), Scale(d2, 3, 2), 0, -1, 0, -1, 0, 0, 1, 1),
       Vertex(Scale(w2, 1, 2), Scale(h2, 1, 1), Scale(d2, 3, 4), 0, 0, 1, -1, 0, 0, 1, 1),
       Vertex(Scale(w2, 1, 2), Scale(h2, 1, 1), Scale(d2, 5, 4), 0, -1, 0, -1, 0, 0, 0, 0),
       Vertex(Scale(w2, 0, 1), Scale(h2, 0, 1), Scale(d2, 1, 1), 0, 1, 0, 1, 0, 0, 1, 0),
       Vertex(Scale(w2, -1, 1), Scale(h2, 1, 2), Scale(d2, 1, 2), 0, 1, 0, 1, 0, 0, 1, 1),
       Vertex(Scale(w2, -1, 1), Scale(h2, 1, 2), Scale(d2, 3, 2), 0, -1, 0, -1, 0, 0, 1, 1),
       Vertex(Scale(w2, -1, 2), Scale(h2, 1, 1), Scale(d2, 3, 4), 0, 0, 1, -1, 0, 0, 1, 1),
       Vertex(Scale(w2, -1, 2), Scale(h2, 1, 1), Scale(d2, 5, 4), 0, -1, 0, -1, 0, 0, 0, 0)
    >>

DiamondIndices(junkIndex) ==
    <<
      0, 1, 2, 1, 3, 2,
      3, 4, 2, 5, 6, 7,
      6, 8, 7, 8, 9, 7,
      10, 11, 12, 11, 13, 12,
      13, 14, 12, 16, 15, 17,
      18, 16, 17, 19, 18, 17,
      21, 20, 22, 23, 21, 22,
      24, 23, 22, 25, 26, 27,
      26, 28, 27, 28, 29, 27,
      30, 31, 32, 31, 33, 32,
      33, 34, 32, 36, 35, 37,
      38, 36, 37, 39, 38, 37
    >>
    \o
    [s \in 1..18 |-> junkIndex]

-----------------------------------------------------------------------------
(* The generators with literal tables.  Each returns the outcome of the    *)
(* call: whether a return statement was executed, the MeshData named by    *)
(* it, and the number of Subdivide calls made.                             *)

Outcome(loop, returns) ==
  [returns |-> returns, meshData |-> loop.mesh, passes |-> loop.passes,
   explored |-> loop.explored]

CreateBar(width, height, depth, numSubdivisions) ==
  LET mesh == [Vertices  |-> BarVertices(width, height, depth),
               Indices32 |-> BarIndices]
      clamped == Min(numSubdivisions, 6)
  IN Outcome(SubdivideLoop(mesh, 0, clamped), TRUE)

CreateBox(width, height, depth, numSubdivisions) ==
  LET mesh == [Vertices  |-> BoxVertices(width, height, depth),
               Indices32 |-> BoxIndices]
      clamped == Min(numSubdivisions, 6)
  IN Outcome(SubdivideLoop(mesh, 0, clamped), TRUE)

\* the subdivision loop of CreateChocolate is commented out
CreateChocolate(width, height, depth, numSubdivisions, junk) ==
  LET mesh == [Vertices  |-> AsSeq(ChocolateVertices(width, height, depth, junk.vertex)),
               Indices32 |-> AsSeq(ChocolateIndices(junk.index))]
      clamped == Min(numSubdivisions, 6)
  IN Outcome([mesh |-> mesh, passes |-> 0, explored |-> TRUE], TRUE)

CreateBar2(width, height, depth, numSubdivisions) ==
  LET mesh == [Vertices  |-> Bar2Vertices(width, height, depth),
               Indices32 |-> Bar2Indices]
      clamped == Min(numSubdivisions, 6)
  IN Outcome(SubdivideLoop(mesh, 0, clamped), TRUE)

CreateCandy(width, height, depth, numSubdivisions) ==
  LET mesh == [Vertices  |-> CandyVertices(width, height, depth),
               Indices32 |-> CandyIndices]
      clamped == Min(numSubdivisions, 6)
  IN Outcome(SubdivideLoop(mesh, 0, clamped), TRUE)

CreateTetrahedron(width, height, depth, numSubdivisions) ==
  LET mesh == [Vertices  |-> TetrahedronVertices(width, height, depth),
               Indices32 |-> TetrahedronIndices]
      clamped == Min(numSubdivisions, 6)
  IN Outcome(SubdivideLoop(mesh, 0, clamped), TRUE)

CreatePyramid(width, height, depth, numSubdivisions) ==
  LET mesh == [Vertices  |-> PyramidVertices(width, height, depth),
               Indices32 |-> PyramidIndices]
      clamped == Min(numSubdivisions, 6)
  IN Outcome(SubdivideLoop(mesh, 0, clamped), TRUE)

CreateWedge(width, height, depth, numSubdivisions) ==
  LET mesh == [Vertices  |-> WedgeVertices(width, height, depth),
               Indices32 |-> WedgeIndices]
      clamped == Min(numSubdivisions, 6)
  IN Outcome(SubdivideLoop(mesh, 0, clamped), TRUE)

\* Vertex v[24] of CreateHexagon has 14 assigned slots; all 24 are copied
CreateHexagon(width, height, depth, numSubdivisions, junk) ==
  LET mesh == [Vertices  |-> AsSeq(HexagonVertices(width, height, depth, junk.vertex)),
               Indices32 |-> HexagonIndices]
      clamped == Min(numSubdivisions, 6)
  IN Outcome(SubdivideLoop(mesh, 0, clamped), TRUE)

\* The body of the for loop of CreateDiamond is "return meshData;" (the
\* Subdivide call is commented out): the first iteration returns the
\* unsubdivided mesh, and with no iteration control reaches the closing
\* brace of the function without a return statement.
CreateDiamond(width, height, depth, numSubdivisions, junk) ==
  LET mesh == [Vertices  |-> DiamondVertices(width, height, depth),
               Indices32 |-> AsSeq(DiamondIndices(junk.index))]
      clamped == Min(numSubdivisions, 6)
  IN Outcome([mesh |-> mesh, passes |-> 0, explored |-> TRUE], 0 < clamped)

\* what the caller of a function that flowed off its end may find in the
\* returned MeshData: the local that was being built, an empty mesh, or
\* whatever the return slot held
IndeterminateMesh(local, junk) ==
  { local, EmptyMesh,
    [Vertices |-> <<junk.vertex>>,
     Indices32 |-> <<junk.index, junk.index, junk.index>>] }

-----------------------------------------------------------------------------
(* Trigonometry and sequences for the parametric generators *)

\* sin(pi*a/b) for 0 <= a <= b, in units of 1/NormOne
\* (Bhaskara's rational approximation; exact at 0, pi/6, pi/2, 5pi/6, pi)
SinHalfTurn(a, b) ==
  RoundDiv(NormOne * 16 * a * (b - a), 5 * b * b - 4 * a * (b - a))

\* sinf and cosf of the angle pi*a/b, a >= 0, b >= 1
Sin(a, b) ==
  LET r == a % (2 * b)
  IN IF r <= b THEN SinHalfTurn(r, b) ELSE -SinHalfTurn(r - b, b)
Cos(a, b) == Sin(2 * a + b, 2 * b)

\* product of a fixed-point length and a sine or cosine
Mul(x, t) == RoundDiv(x * t, NormOne)
\* quotient of two fixed-point numbers
Div(x, y) == RoundDiv(x * One, y)

\* F(lo) \o F(lo+1) \o ... \o F(hi): the elements pushed by a loop
RECURSIVE PushAll(_, _, _)
PushAll(F(_), lo, hi) ==
  IF lo > hi THEN <<>> ELSE F(lo) \o PushAll(F, lo + 1, hi)

\* the cross product of a unit vector and a fixed-point vector
UnitCross(t, b) ==
  LET c == Cross(t, b)
  IN <<RoundDiv(c[1], NormOne), RoundDiv(c[2], NormOne), RoundDiv(c[3], NormOne)>>

-----------------------------------------------------------------------------
(* CreateSphere *)

\* CreateSphere with rings that stop before the seam (j < sliceCount): the
\* duplicate vertex that closes each ring is missing
CreateSphereWithoutSeam(radius, sliceCount, stackCount) ==
  LET topVertex == Vertex(0, radius, 0, 0, 1, 0, 1, 0, 0, 0, 0)
      bottomVertex == Vertex(0, -radius, 0, 0, -1, 0, 1, 0, 0, 0, 1)
      RingVertex(i, j) ==
        LET sinPhi == Sin(i, stackCount)
            cosPhi == Cos(i, stackCount)
            sinTheta == Sin(2 * j, sliceCount)
            cosTheta == Cos(2 * j, sliceCount)
            position == <<Mul(Mul(radius, sinPhi), cosTheta),
                          Mul(radius, cosPhi),
                          Mul(Mul(radius, sinPhi), sinTheta)>>
            tangent == <<-Mul(Mul(radius, sinPhi), sinTheta), 0,
                          Mul(Mul(radius, sinPhi), cosTheta)>>
        IN [Position |-> position,
            Normal   |-> XMVector3Normalize(position),
            TangentU |-> XMVector3Normalize(tangent),
            TexC     |-> <<Fixed(j, sliceCount), Fixed(i, stackCount)>>]
      Ring(i) == PushAll(LAMBDA j : <<RingVertex(i, j)>>, 0, sliceCount - 1)
      vertices == <<topVertex>> \o PushAll(Ring, 1, stackCount - 1)
                    \o <<bottomVertex>>
      topStack == PushAll(LAMBDA i : <<0, i + 1, i>>, 1, sliceCount)
      ringVertexCount == sliceCount + 1
      Quad(baseIndex, i, j) ==
        <<baseIndex + i * ringVertexCount + j,
          baseIndex + i * ringVertexCount + j + 1,
          baseIndex + (i + 1) * ringVertexCount + j,
          baseIndex + (i + 1) * ringVertexCount + j,
          baseIndex + i * ringVertexCount + j + 1,
          baseIndex + (i + 1) * ringVertexCount + j + 1>>
      InnerStack(i) == PushAll(LAMBDA j : Quad(1, i, j), 0, sliceCount - 1)
      innerStacks == PushAll(InnerStack, 0, stackCount - 3)
      southPoleIndex == Len(vertices) - 1
      baseIndexBottom == southPoleIndex - ringVertexCount
      bottomStack ==
        PushAll(LAMBDA i : <<southPoleIndex, baseIndexBottom + i,
                             baseIndexBottom + i + 1>>, 0, sliceCount - 1)
  IN [returns |-> TRUE, passes |-> 0, explored |-> TRUE,
      meshData |-> [Vertices  |-> vertices,
                    Indices32 |-> topStack \o innerStacks \o bottomStack]]

CreateSphere(radius, sliceCount, stackCount) ==
  LET topVertex == Vertex(0, radius, 0, 0, 1, 0, 1, 0, 0, 0, 0)
      bottomVertex == Vertex(0, -radius, 0, 0, -1, 0, 1, 0, 0, 0, 1)
      \* phi = i*pi/stackCount, theta = j*2pi/sliceCount
      RingVertex(i, j) ==
        LET sinPhi == Sin(i, stackCount)
            cosPhi == Cos(i, stackCount)
            sinTheta == Sin(2 * j, sliceCount)
            cosTheta == Cos(2 * j, sliceCount)
            position == <<Mul(Mul(radius, sinPhi), cosTheta),
                          Mul(radius, cosPhi),
                          Mul(Mul(radius, sinPhi), sinTheta)>>
            tangent == <<-Mul(Mul(radius, sinPhi), sinTheta), 0,
                          Mul(Mul(radius, sinPhi), cosTheta)>>
        IN [Position |-> position,
            Normal   |-> XMVector3Normalize(position),
            TangentU |-> XMVector3Normalize(tangent),
            TexC     |-> <<Fixed(j, sliceCount), Fixed(i, stackCount)>>]
      Ring(i) == PushAll(LAMBDA j : <<RingVertex(i, j)>>, 0, sliceCount)
      vertices == <<topVertex>> \o PushAll(Ring, 1, stackCount - 1)
                    \o <<bottomVertex>>
      topStack == PushAll(LAMBDA i : <<0, i + 1, i>>, 1, sliceCount)
      ringVertexCount == sliceCount + 1
      Quad(baseIndex, i, j) ==
        <<baseIndex + i * ringVertexCount + j,
          baseIndex + i * ringVertexCount + j + 1,
          baseIndex + (i + 1) * ringVertexCount + j,
          baseIndex + (i + 1) * ringVertexCount + j,
          baseIndex + i * ringVertexCount + j + 1,
          baseIndex + (i + 1) * ringVertexCount + j + 1>>
      InnerStack(i) == PushAll(LAMBDA j : Quad(1, i, j), 0, sliceCount - 1)
      innerStacks == PushAll(InnerStack, 0, stackCount - 3)
      southPoleIndex == Len(vertices) - 1
      baseIndexBottom == southPoleIndex - ringVertexCount
      bottomStack ==
        PushAll(LAMBDA i : <<southPoleIndex, baseIndexBottom + i,
                             baseIndexBottom + i + 1>>, 0, sliceCount - 1)
  IN [returns |-> TRUE, passes |-> 0, explored |-> TRUE,
      meshData |-> [Vertices  |-> vertices,
                    Indices32 |-> topStack \o innerStacks \o bottomStack]]

-----------------------------------------------------------------------------
(* CreateGeosphere *)

\* X = 0.525731f and Z = 0.850651f in fixed point
IcosahedronX == Fixed(52573, 100000)
IcosahedronZ == Fixed(85065, 100000)

IcosahedronPos ==
  LET X == IcosahedronX
      Z == IcosahedronZ
  IN << <<-X, 0, Z>>,  <<X, 0, Z>>,
        <<-X, 0, -Z>>, <<X, 0, -Z>>,
        <<0, Z, X>>,   <<0, Z, -X>>,
        <<0, -Z, X>>,  <<0, -Z, -X>>,
        <<Z, X, 0>>,   <<-Z, X, 0>>,
        <<Z, -X, 0>>,  <<-Z, -X, 0>> >>

\* the index table with every 11 replaced by 0: vertex 11 is in no triangle
IcosahedronIndicesWithoutLastVertex ==
  << 1,4,0,  4,9,0,  4,5,9,  8,5,4,  1,8,4,
     1,10,8, 10,3,8, 8,3,5,  3,2,5,  3,7,2,
     3,10,7, 10,6,7, 6,0,7,  6,0,0,  6,1,0,
     10,1,6, 0,0,9,  2,0,9,  5,2,9,  0,2,7 >>

IcosahedronIndices ==
  << 1,4,0,  4,9,0,  4,5,9,  8,5,4,  1,8,4,
     1,10,8, 10,3,8, 8,3,5,  3,2,5,  3,7,2,
     3,10,7, 10,6,7, 6,11,7, 6,0,11, 6,1,0,
     10,1,6, 11,0,9, 2,11,9, 5,2,9,  11,2,7 >>

\* Vertices.resize(12) default-constructs the vertices: their Normal,
\* TangentU and TexC hold junk until the projection loop overwrites them.
\* atan2f and acosf are kept symbolic in TexC.
CreateGeosphere(radius, numSubdivisions, junk) ==
  LET clamped == Min(numSubdivisions, 6)
      mesh == [Vertices  |-> [i \in 1..12 |->
                                [junk.vertex EXCEPT !.Position = IcosahedronPos[i]]],
               Indices32 |-> IcosahedronIndices]
      loop == SubdivideLoop(mesh, 0, clamped)
      Project(v) ==
        LET n == XMVector3Normalize(v.Position)
            p == <<Mul(radius, n[1]), Mul(radius, n[2]), Mul(radius, n[3])>>
        IN [Position |-> p,
            Normal   |-> n,
            TangentU |-> XMVector3Normalize(<<-p[3], 0, p[1]>>),
            TexC     |-> << <<"atan2f", p[3], p[1]>>, <<"acosf", p[2], radius>> >>]
  IN [returns |-> TRUE, passes |-> loop.passes, explored |-> loop.explored,
      meshData |-> [Vertices  |-> AsSeq([i \in 1..Len(loop.mesh.Vertices) |->
                                           Project(loop.mesh.Vertices[i])]),
                    Indices32 |-> loop.mesh.Indices32]]

-----------------------------------------------------------------------------
(* CreateCylinder, its caps, and CreateCone *)

\* the stacked side rings shared by CreateCylinder and CreateCone;
\* dr is bottomRadius - topRadius
SideVertices(bottomRadius, radiusStep, dr, height, sliceCount, stackCount) ==
  LET stackHeight == RoundDiv(height, stackCount)
      ringCount == stackCount + 1
      RingVertex(i, j) ==
        LET y == -Half(height) + i * stackHeight
            r == bottomRadius + i * radiusStep
            \* dTheta = 2pi/sliceCount
            c == Cos(2 * j, sliceCount)
            s == Sin(2 * j, sliceCount)
            tangent == <<-s, 0, c>>
            bitangent == <<Mul(dr, c), -height, Mul(dr, s)>>
        IN [Position |-> <<Mul(r, c), y, Mul(r, s)>>,
            Normal   |-> XMVector3Normalize(UnitCross(tangent, bitangent)),
            TangentU |-> tangent,
            TexC     |-> <<Fixed(j, sliceCount), One - Fixed(i, stackCount)>>]
      Ring(i) == PushAll(LAMBDA j : <<RingVertex(i, j)>>, 0, sliceCount)
  IN PushAll(Ring, 0, ringCount - 1)

SideIndices(sliceCount, stackCount) ==
  LET ringVertexCount == sliceCount + 1
      Quad(i, j) ==
        <<i * ringVertexCount + j,
          (i + 1) * ringVertexCount + j,
          (i + 1) * ringVertexCount + j + 1,
          i * ringVertexCount + j,
          (i + 1) * ringVertexCount + j + 1,
          i * ringVertexCount + j + 1>>
      Stack(i) == PushAll(LAMBDA j : Quad(i, j), 0, sliceCount - 1)
  IN PushAll(Stack, 0, stackCount - 1)

\* BuildCylinderTopCap without the push_back of the centre vertex:
\* centerIndex is then the slot of the last ring vertex
BuildCylinderTopCapWithoutCenter(bottomRadius, topRadius, height, sliceCount, stackCount, meshData0) ==
  LET baseIndex == Len(meshData0.Vertices)
      y == Half(height)
      RingVertex(i) ==
        LET x == Mul(topRadius, Cos(2 * i, sliceCount))
            z == Mul(topRadius, Sin(2 * i, sliceCount))
            u == Div(x, height) + Half(One)
            v == Div(z, height) + Half(One)
        IN [Position |-> <<x, y, z>>, Normal |-> <<0, NormOne, 0>>,
            TangentU |-> <<NormOne, 0, 0>>, TexC |-> <<u, v>>]
      vertices == meshData0.Vertices
                    \o PushAll(LAMBDA i : <<RingVertex(i)>>, 0, sliceCount)
      centerIndex == Len(vertices) - 1
  IN [Vertices  |-> vertices,
      Indices32 |-> meshData0.Indices32
                      \o PushAll(LAMBDA i : <<centerIndex, baseIndex + i + 1,
                                              baseIndex + i>>, 0, sliceCount - 1)]

BuildCylinderTopCap(bottomRadius, topRadius, height, sliceCount, stackCount, meshData0) ==
  LET baseIndex == Len(meshData0.Vertices)
      y == Half(height)
      RingVertex(i) ==
        LET x == Mul(topRadius, Cos(2 * i, sliceCount))
            z == Mul(topRadius, Sin(2 * i, sliceCount))
            u == Div(x, height) + Half(One)
            v == Div(z, height) + Half(One)
        IN [Position |-> <<x, y, z>>, Normal |-> <<0, NormOne, 0>>,
            TangentU |-> <<NormOne, 0, 0>>, TexC |-> <<u, v>>]
      center == [Position |-> <<0, y, 0>>, Normal |-> <<0, NormOne, 0>>,
                 TangentU |-> <<NormOne, 0, 0>>, TexC |-> <<Half(One), Half(One)>>]
      vertices == meshData0.Vertices
                    \o PushAll(LAMBDA i : <<RingVertex(i)>>, 0, sliceCount)
                    \o <<center>>
      centerIndex == Len(vertices) - 1
  IN [Vertices  |-> vertices,
      Indices32 |-> meshData0.Indices32
                      \o PushAll(LAMBDA i : <<centerIndex, baseIndex + i + 1,
                                              baseIndex + i>>, 0, sliceCount - 1)]

\* BuildCylinderBottomCap with the triangles wound as those of the top cap
BuildCylinderBottomCapWoundAsTop(bottomRadius, topRadius, height, sliceCount, stackCount, meshData0) ==
  LET baseIndex == Len(meshData0.Vertices)
      y == -Half(height)
      RingVertex(i) ==
        LET x == Mul(bottomRadius, Cos(2 * i, sliceCount))
            z == Mul(bottomRadius, Sin(2 * i, sliceCount))
            u == Div(x, height) + Half(One)
            v == Div(z, height) + Half(One)
        IN [Position |-> <<x, y, z>>, Normal |-> <<0, -NormOne, 0>>,
            TangentU |-> <<NormOne, 0, 0>>, TexC |-> <<u, v>>]
      center == [Position |-> <<0, y, 0>>, Normal |-> <<0, -NormOne, 0>>,
                 TangentU |-> <<NormOne, 0, 0>>, TexC |-> <<Half(One), Half(One)>>]
      vertices == meshData0.Vertices
                    \o PushAll(LAMBDA i : <<RingVertex(i)>>, 0, sliceCount)
                    \o <<center>>
      centerIndex == Len(vertices) - 1
  IN [Vertices  |-> vertices,
      Indices32 |-> meshData0.Indices32
                      \o PushAll(LAMBDA i : <<centerIndex, baseIndex + i + 1,
                                              baseIndex + i>>, 0, sliceCount - 1)]

BuildCylinderBottomCap(bottomRadius, topRadius, height, sliceCount, stackCount, meshData0) ==
  LET baseIndex == Len(meshData0.Vertices)
      y == -Half(height)
      RingVertex(i) ==
        LET x == Mul(bottomRadius, Cos(2 * i, sliceCount))
            z == Mul(bottomRadius, Sin(2 * i, sliceCount))
            u == Div(x, height) + Half(One)
            v == Div(z, height) + Half(One)
        IN [Position |-> <<x, y, z>>, Normal |-> <<0, -NormOne, 0>>,
            TangentU |-> <<NormOne, 0, 0>>, TexC |-> <<u, v>>]
      center == [Position |-> <<0, y, 0>>, Normal |-> <<0, -NormOne, 0>>,
                 TangentU |-> <<NormOne, 0, 0>>, TexC |-> <<Half(One), Half(One)>>]
      vertices == meshData0.Vertices
                    \o PushAll(LAMBDA i : <<RingVertex(i)>>, 0, sliceCount)
                    \o <<center>>
      centerIndex == Len(vertices) - 1
  IN [Vertices  |-> vertices,
      Indices32 |-> meshData0.Indices32
                      \o PushAll(LAMBDA i : <<centerIndex, baseIndex + i,
                                              baseIndex + i + 1>>, 0, sliceCount - 1)]

CreateCylinder(bottomRadius, topRadius, height, sliceCount, stackCount) ==
  LET radiusStep == RoundDiv(topRadius - bottomRadius, stackCount)
      side == [Vertices  |-> SideVertices(bottomRadius, radiusStep,
                                          bottomRadius - topRadius, height,
                                          sliceCount, stackCount),
               Indices32 |-> SideIndices(sliceCount, stackCount)]
      withTop == BuildCylinderTopCap(bottomRadius, topRadius, height,
                                     sliceCount, stackCount, side)
  IN [returns |-> TRUE, passes |-> 0, explored |-> TRUE,
      meshData |-> BuildCylinderBottomCap(bottomRadius, topRadius, height,
                                          sliceCount, stackCount, withTop)]

\* CreateCone with the top cap appended as well, as CreateCylinder does
CreateConeWithTopCap(bottomRadius, height, sliceCount, stackCount) ==
  CreateCylinder(bottomRadius, 0, height, sliceCount, stackCount)

CreateCone(bottomRadius, height, sliceCount, stackCount) ==
  LET radiusStep == RoundDiv(0 - bottomRadius, stackCount)
      side == [Vertices  |-> SideVertices(bottomRadius, radiusStep, bottomRadius,
                                          height, sliceCount, stackCount),
               Indices32 |-> SideIndices(sliceCount, stackCount)]
  IN [returns |-> TRUE, passes |-> 0, explored |-> TRUE,
      meshData |-> BuildCylinderBottomCap(bottomRadius, 0, height,
                                          sliceCount, stackCount, side)]

-----------------------------------------------------------------------------
(* CreateGrid and CreateQuad *)

\* the writes of a loop applied in order to a resized vector:
\* f after  f[Slot(k)+1] = Value(k)  for k = lo .. hi
RECURSIVE StoreAll(_, _, _, _, _)
StoreAll(f, Slot(_), Value(_), lo, hi) ==
  IF lo > hi THEN f
  ELSE StoreAll([f EXCEPT ![Slot(lo) + 1] = Value(lo)], Slot, Value, lo + 1, hi)

\* valid for m >= 2 and n >= 2
CreateGrid(width, depth, m, n, junk) ==
  LET vertexCount == m * n
      faceCount == (m - 1) * (n - 1) * 2
      halfWidth == Half(width)
      halfDepth == Half(depth)
      dx == RoundDiv(width, n - 1)
      dz == RoundDiv(depth, m - 1)
      du == RoundDiv(One, n - 1)
      dv == RoundDiv(One, m - 1)
      \* iteration (i, j) of the vertex loops, numbered i*n + j
      GridVertex(c) ==
        LET i == c \div n
            j == c % n
        IN [Position |-> <<-halfWidth + j * dx, 0, halfDepth - i * dz>>,
            Normal   |-> <<0, NormOne, 0>>,
            TangentU |-> <<NormOne, 0, 0>>,
            TexC     |-> <<j * du, i * dv>>]
      resizedVertices == [p \in 1..vertexCount |-> junk.vertex]
      vertices == StoreAll(resizedVertices, LAMBDA c : c, GridVertex,
                           0, vertexCount - 1)
      \* iteration (i, j) of the index loops, numbered i*(n-1) + j, writes
      \* the six slots k .. k+5 with k = 6 * (i*(n-1) + j)
      QuadIndex(c, s) ==
        LET i == c \div (n - 1)
            j == c % (n - 1)
        IN CASE s = 0 -> i * n + j
             [] s = 1 -> i * n + j + 1
             [] s = 2 -> (i + 1) * n + j
             [] s = 3 -> (i + 1) * n + j
             [] s = 4 -> i * n + j + 1
             [] s = 5 -> (i + 1) * n + j + 1
      resizedIndices == [q \in 1..(faceCount * 3) |-> 0]
      indices == StoreAll(resizedIndices, LAMBDA w : w,
                          LAMBDA w : QuadIndex(w \div 6, w % 6),
                          0, 6 * (m - 1) * (n - 1) - 1)
  IN [returns |-> TRUE, passes |-> 0, explored |-> TRUE,
      meshData |-> [Vertices |-> AsSeq(vertices), Indices32 |-> AsSeq(indices)]]

CreateQuad(x, y, w, h, depth) ==
  [returns |-> TRUE, passes |-> 0, explored |-> TRUE,
   meshData |->
     [Vertices  |-> << Vertex(x, y - h, depth, 0, 0, -1, 1, 0, 0, 0, 1),
                       Vertex(x, y, depth, 0, 0, -1, 1, 0, 0, 0, 0),
                       Vertex(x + w, y, depth, 0, 0, -1, 1, 0, 0, 1, 0),
                       Vertex(x + w, y - h, depth, 0, 0, -1, 1, 0, 0, 1, 1) >>,
      Indices32 |-> <<0, 1, 2, 0, 2, 3>>]]

-----------------------------------------------------------------------------
(* The calls explored: every generator with every argument tuple of the    *)
(* bounded sets.  Extents are positive, slice and stack counts at least 1  *)
(* (2 stacks for a sphere) and grid sizes at least 2.                      *)

Dims == { Fixed(d, 1) : d \in 1..MaxDim }
Offsets == { Fixed(d, 1) : d \in -1..0 }

Tagged(fn, args) == { [fn |-> fn] @@ a : a \in args }

BoxArgs ==
  { a \in [width : Dims, height : Dims, depth : Dims,
           numSubdivisions : 0..MaxSubdivArg] :
      \/ a.numSubdivisions <= MaxSubdivScaled
      \/ a.width = One /\ a.height = One /\ a.depth = One }

SphereArgs ==
  [radius : Dims, sliceCount : 1..MaxSliceCount, stackCount : 2..MaxStackCount]
GeosphereArgs ==
  { a \in [radius : Dims, numSubdivisions : 0..MaxSubdivArg] :
      a.numSubdivisions <= MaxSubdivScaled \/ a.radius = One }
CylinderArgs ==
  [bottomRadius : Dims, topRadius : Dims, height : Dims,
   sliceCount : 1..MaxSliceCount, stackCount : 1..MaxStackCount]
ConeArgs ==
  [bottomRadius : Dims, height : Dims,
   sliceCount : 1..MaxSliceCount, stackCount : 1..MaxStackCount]
GridArgs == [width : Dims, depth : Dims, m : 2..MaxGrid, n : 2..MaxGrid]
QuadArgs == [x : Offsets, y : Offsets, w : Dims, h : Dims, depth : {0, One}]

\* the generators that take (width, height, depth, numSubdivisions)
BoxLike ==
  {"CreateBar", "CreateBox", "CreateChocolate", "CreateBar2", "CreateCandy",
   "CreateTetrahedron", "CreatePyramid", "CreateWedge", "CreateHexagon",
   "CreateDiamond"}
\* the generators that take numSubdivisions
Subdividing == BoxLike \cup {"CreateGeosphere"}

Calls ==
  UNION { Tagged(fn, BoxArgs) : fn \in BoxLike }
    \cup Tagged("CreateSphere", SphereArgs)
    \cup Tagged("CreateGeosphere", GeosphereArgs)
    \cup Tagged("CreateCylinder", CylinderArgs)
    \cup Tagged("CreateCone", ConeArgs)
    \cup Tagged("CreateGrid", GridArgs)
    \cup Tagged("CreateQuad", QuadArgs)

NoVertex == Vertex(0, 0, 0, 0, 0, 0, 0, 0, 0, 0, 0)
NoPrevious == [pc |-> "none", meshData |-> EmptyMesh]
NoLocals == <<>>
NoApp == [mGeometries |-> <<>>]

\* the outcome r of the current call becomes visible to the caller
Return(r, junk, prev) ==
  /\ r.explored
  /\ passes' = r.passes
  /\ IF r.returns
       THEN pc' = "returned" /\ meshData' = r.meshData
       ELSE pc' = "fell_off_end"
              /\ meshData' \in IndeterminateMesh(r.meshData, junk)
  /\ previous' = prev
  /\ UNCHANGED <<call, inputCopy, midpoint, locals, app>>

AnyJunk == CHOOSE j \in Junk : TRUE

-----------------------------------------------------------------------------
(* One action per generator: the whole call *)

CreateBarCall ==
  /\ pc = "idle" /\ call.fn = "CreateBar"
  /\ Return(CreateBar(call.width, call.height, call.depth,
                      call.numSubdivisions), AnyJunk, previous)

CreateBoxCall ==
  /\ pc = "idle" /\ call.fn = "CreateBox"
  /\ Return(CreateBox(call.width, call.height, call.depth,
                      call.numSubdivisions), AnyJunk, previous)

CreateChocolateCall ==
  /\ pc = "idle" /\ call.fn = "CreateChocolate"
  /\ \E junk \in Junk :
       Return(CreateChocolate(call.width, call.height, call.depth,
                              call.numSubdivisions, junk), junk, previous)

CreateBar2Call ==
  /\ pc = "idle" /\ call.fn = "CreateBar2"
  /\ Return(CreateBar2(call.width, call.height, call.depth,
                       call.numSubdivisions), AnyJunk, previous)

CreateCandyCall ==
  /\ pc = "idle" /\ call.fn = "CreateCandy"
  /\ Return(CreateCandy(call.width, call.height, call.depth,
                        call.numSubdivisions), AnyJunk, previous)

CreateTetrahedronCall ==
  /\ pc = "idle" /\ call.fn = "CreateTetrahedron"
  /\ Return(CreateTetrahedron(call.width, call.height, call.depth,
                              call.numSubdivisions), AnyJunk, previous)

CreatePyramidCall ==
  /\ pc = "idle" /\ call.fn = "CreatePyramid"
  /\ Return(CreatePyramid(call.width, call.height, call.depth,
                          call.numSubdivisions), AnyJunk, previous)

CreateWedgeCall ==
  /\ pc = "idle" /\ call.fn = "CreateWedge"
  /\ Return(CreateWedge(call.width, call.height, call.depth,
                        call.numSubdivisions), AnyJunk, previous)

CreateHexagonCall ==
  /\ pc = "idle" /\ call.fn = "CreateHexagon"
  /\ \E junkVertex \in JunkVertices :
       LET junk == [vertex |-> junkVertex, index |-> 0]
       IN Return(CreateHexagon(call.width, call.height, call.depth,
                               call.numSubdivisions, junk), junk, previous)

CreateDiamondCall ==
  /\ pc = "idle" /\ call.fn = "CreateDiamond"
  /\ \E junk \in Junk :
       Return(CreateDiamond(call.width, call.height, call.depth,
                            call.numSubdivisions, junk), junk, previous)

CreateSphereCall ==
  /\ pc = "idle" /\ call.fn = "CreateSphere"
  /\ Return(CreateSphere(call.radius, call.sliceCount, call.stackCount), AnyJunk, previous)

CreateGeosphereCall ==
  /\ pc = "idle" /\ call.fn = "CreateGeosphere"
  /\ \E junkVertex \in JunkVertices :
       LET junk == [vertex |-> junkVertex, index |-> 0]
       IN Return(CreateGeosphere(call.radius, call.numSubdivisions, junk), junk, previous)

CreateCylinderCall ==
  /\ pc = "idle" /\ call.fn = "CreateCylinder"
  /\ Return(CreateCylinder(call.bottomRadius, call.topRadius, call.height,
                           call.sliceCount, call.stackCount), AnyJunk, previous)

CreateConeCall ==
  /\ pc = "idle" /\ call.fn = "CreateCone"
  /\ Return(CreateCone(call.bottomRadius, call.height,
                       call.sliceCount, call.stackCount), AnyJunk, previous)

CreateGridCall ==
  /\ pc = "idle" /\ call.fn = "CreateGrid"
  /\ \E junkVertex \in JunkVertices :
       LET junk == [vertex |-> junkVertex, index |-> 0]
       IN Return(CreateGrid(call.width, call.depth, call.m, call.n, junk), junk, previous)

CreateQuadCall ==
  /\ pc = "idle" /\ call.fn = "CreateQuad"
  /\ Return(CreateQuad(call.x, call.y, call.w, call.h, call.depth), AnyJunk, previous)

Init ==
  /\ pc = "idle"
  /\ call \in Calls
  /\ meshData = EmptyMesh
  /\ inputCopy = EmptyMesh
  /\ passes = 0
  /\ midpoint = NoVertex
  /\ previous = NoPrevious
  /\ locals = NoLocals
  /\ app = NoApp

Next ==
  \/ CreateBarCall
  \/ CreateBoxCall
  \/ CreateChocolateCall
  \/ CreateBar2Call
  \/ CreateSphereCall
  \/ CreateCandyCall
  \/ CreateGeosphereCall
  \/ CreateCylinderCall
  \/ CreateGridCall
  \/ CreateQuadCall
  \/ CreateTetrahedronCall
  \/ CreatePyramidCall
  \/ CreateWedgeCall
  \/ CreateHexagonCall
  \/ CreateConeCall
  \/ CreateDiamondCall

Spec == Init /\ [][Next]_vars

-----------------------------------------------------------------------------
(* SpecSub: Subdivide applied again and again to small meshes whose        *)
(* indices are in bounds.  Positions are multiples of 64, so each of six   *)
(* halvings is exact.                                                      *)

\* a Subdivide call is explored when it builds at most MaxSubTris triangles
MaxSubTris == 4096

SubVertices ==
  << Vertex(0, 0, 0,       0, 0, -1,  1, 0, 0,  0, 1),
     Vertex(0, 128, 0,     0, 0, -1,  1, 0, 0,  0, 0),
     Vertex(192, 128, 64,  0, 1, 0,   1, 0, 0,  1, 0),
     Vertex(256, 0, -64,   1, 0, 0,   0, 0, 1,  1, 1) >>

\* triangles over the four vertices: proper ones sharing edges in either
\* direction, and degenerate ones
SubTriangles ==
  { <<0, 1, 2>>, <<0, 2, 3>>, <<2, 1, 3>>, <<1, 1, 0>>, <<3, 3, 3>> }

SubMeshes ==
  { [Vertices |-> SubVertices, Indices32 |-> t] : t \in SubTriangles }
    \cup { [Vertices |-> SubVertices, Indices32 |-> t \o u] :
             t \in SubTriangles, u \in SubTriangles }

InitSub ==
  /\ pc = "sub"
  /\ call \in Tagged("Subdivide", [meshData : SubMeshes])
  /\ meshData = call.meshData
  /\ inputCopy = EmptyMesh
  /\ passes = 0
  /\ midpoint = NoVertex
  /\ previous = NoPrevious
  /\ locals = NoLocals
  /\ app = NoApp

\* one call of Subdivide on the caller's mesh; inputCopy is the copy the
\* call took of its input
SubdivideCall ==
  /\ pc = "sub"
  /\ 4 * NumTriangles(meshData) <= MaxSubTris
  /\ inputCopy' = meshData
  /\ meshData' = Subdivide(meshData)
  /\ passes' = passes + 1
  /\ UNCHANGED <<pc, call, midpoint, previous, locals, app>>

NextSub == SubdivideCall

SpecSub == InitSub /\ [][NextSub]_vars

-----------------------------------------------------------------------------
(* SpecMid: MidPoint applied to every pair of a pool of vertices with      *)
(* unit-length normals and tangents.                                       *)

MidVertex(px, py, pz, normal, tangent, u, v) ==
  [Position |-> <<px, py, pz>>, Normal |-> normal, TangentU |-> tangent,
   TexC |-> <<u, v>>]

MidPool ==
  { MidVertex(0, 0, 0,        <<0, 0, -NormOne>>,  <<NormOne, 0, 0>>,   0, One),
    MidVertex(One, 0, 0,      <<0, 0, NormOne>>,   <<-NormOne, 0, 0>>,  One, One),
    MidVertex(0, One, 7,      <<0, NormOne, 0>>,   <<NormOne, 0, 0>>,   0, 0),
    MidVertex(-One, 3, One,   <<0, -NormOne, 0>>,  <<NormOne, 0, 0>>,   One, 0),
    MidVertex(5, -One, 1,     <<NormOne, 0, 0>>,   <<0, 0, NormOne>>,   3, 5),
    MidVertex(-7, 11, -13,    <<-NormOne, 0, 0>>,  <<0, 0, -NormOne>>,  7, 2),
    MidVertex(One, One, One,  <<600, 800, 0>>,     <<-800, 600, 0>>,    One, 1),
    MidVertex(1, 2, 3,        <<-600, -800, 0>>,   <<800, -600, 0>>,    0, 0),
    MidVertex(2560, 0, -2560, <<0, 600, -800>>,    <<NormOne, 0, 0>>,   2560, 2560),
    MidVertex(-3, -5, 9,      <<577, 577, 578>>,   <<707, -707, 0>>,    1, 1),
    MidVertex(64, 64, 64,     <<0, -600, 800>>,    <<NormOne, 0, 0>>,   9, 9) }

InitMid ==
  /\ pc = "mid"
  /\ call \in Tagged("MidPoint", [v0 : MidPool, v1 : MidPool])
  /\ meshData = EmptyMesh
  /\ inputCopy = EmptyMesh
  /\ passes = 0
  /\ midpoint = NoVertex
  /\ previous = NoPrevious
  /\ locals = NoLocals
  /\ app = NoApp

MidPointCall ==
  /\ pc = "mid"
  /\ midpoint' = MidPoint(call.v0, call.v1)
  /\ pc' = "mid_done"
  /\ UNCHANGED <<call, meshData, inputCopy, passes, previous, locals, app>>

NextMid == MidPointCall

SpecMid == InitMid /\ [][NextMid]_vars

-----------------------------------------------------------------------------
(* SpecDet: every generator called twice with the same arguments; the      *)
(* uninitialised storage of the two calls is drawn independently.          *)

\* the calls repeated take numSubdivisions in 0..MaxSubdivDet
MaxSubdivDet == 2

DetCalls ==
  { c \in Calls : c.fn \in Subdividing => c.numSubdivisions <= MaxSubdivDet }

\* the outcome of call c when its uninitialised storage holds junk
Invoke(c, junk) ==
  CASE c.fn = "CreateBar" ->
         CreateBar(c.width, c.height, c.depth, c.numSubdivisions)
    [] c.fn = "CreateBox" ->
         CreateBox(c.width, c.height, c.depth, c.numSubdivisions)
    [] c.fn = "CreateChocolate" ->
         CreateChocolate(c.width, c.height, c.depth, c.numSubdivisions, junk)
    [] c.fn = "CreateBar2" ->
         CreateBar2(c.width, c.height, c.depth, c.numSubdivisions)
    [] c.fn = "CreateCandy" ->
         CreateCandy(c.width, c.height, c.depth, c.numSubdivisions)
    [] c.fn = "CreateTetrahedron" ->
         CreateTetrahedron(c.width, c.height, c.depth, c.numSubdivisions)
    [] c.fn = "CreatePyramid" ->
         CreatePyramid(c.width, c.height, c.depth, c.numSubdivisions)
    [] c.fn = "CreateWedge" ->
         CreateWedge(c.width, c.height, c.depth, c.numSubdivisions)
    [] c.fn = "CreateHexagon" ->
         CreateHexagon(c.width, c.height, c.depth, c.numSubdivisions, junk)
    [] c.fn = "CreateDiamond" ->
         CreateDiamond(c.width, c.height, c.depth, c.numSubdivisions, junk)
    [] c.fn = "CreateSphere" ->
         CreateSphere(c.radius, c.sliceCount, c.stackCount)
    [] c.fn = "CreateGeosphere" ->
         CreateGeosphere(c.radius, c.numSubdivisions, junk)
    [] c.fn = "CreateCylinder" ->
         CreateCylinder(c.bottomRadius, c.topRadius, c.height,
                        c.sliceCount, c.stackCount)
    [] c.fn = "CreateCone" ->
         CreateCone(c.bottomRadius, c.height, c.sliceCount, c.stackCount)
    [] c.fn = "CreateGrid" ->
         CreateGrid(c.width, c.depth, c.m, c.n, junk)
    [] c.fn = "CreateQuad" ->
         CreateQuad(c.x, c.y, c.w, c.h, c.depth)

InitDet ==
  /\ pc = "idle"
  /\ call \in DetCalls
  /\ meshData = EmptyMesh
  /\ inputCopy = EmptyMesh
  /\ passes = 0
  /\ midpoint = NoVertex
  /\ previous = NoPrevious
  /\ locals = NoLocals
  /\ app = NoApp

FirstCall ==
  /\ pc = "idle"
  /\ \E junk \in Junk : Return(Invoke(call, junk), junk, previous)

\* the caller keeps the first result and makes the same call again
SecondCall ==
  /\ pc \in {"returned", "fell_off_end"}
  /\ previous = NoPrevious
  /\ \E junk \in Junk :
       Return(Invoke(call, junk), junk, [pc |-> pc, meshData |-> meshData])

NextDet == FirstCall \/ SecondCall

SpecDet == InitDet /\ [][NextDet]_vars

-----------------------------------------------------------------------------
(* Properties of the returned meshes (Spec) *)

IndicesInBounds(m) ==
  \A q \in 1..Len(m.Indices32) : m.Indices32[q] \in 0..(Len(m.Vertices) - 1)

\* C1: every mesh returned by a generator has an index count that is a
\* multiple of 3 and only indices strictly below its vertex count, whatever
\* the unassigned slots of its index table hold.
IndexInvariant ==
  pc = "returned" =>
    NumIndices(meshData) % 3 = 0 /\ IndicesInBounds(meshData)

\* a returned CreateChocolate or CreateDiamond mesh with an index that names
\* no vertex
IndexOutOfBoundsReturned ==
  /\ pc = "returned"
  /\ call.fn \in {"CreateChocolate", "CreateDiamond"}
  /\ ~IndicesInBounds(meshData)

\* C4: in every generator that takes numSubdivisions the number of Subdivide
\* passes applied to the returned mesh is min(numSubdivisions, 6).
ClampedPasses ==
  (pc = "returned" /\ call.fn \in Subdividing) =>
     passes = Min(call.numSubdivisions, 6)

\* a call with numSubdivisions >= 1 returned a mesh no Subdivide pass touched
ReturnedUnsubdivided ==
  /\ pc = "returned"
  /\ call.fn \in {"CreateChocolate", "CreateDiamond"}
  /\ call.numSubdivisions >= 1
  /\ passes = 0

\* the literal tables of a generator taking (width, height, depth,
\* numSubdivisions), with junk in the slots it never assigns
BaseTables(c, junk) ==
  CASE c.fn = "CreateBar" ->
         [Vertices  |-> BarVertices(c.width, c.height, c.depth),
          Indices32 |-> BarIndices]
    [] c.fn = "CreateBox" ->
         [Vertices  |-> BoxVertices(c.width, c.height, c.depth),
          Indices32 |-> BoxIndices]
    [] c.fn = "CreateChocolate" ->
         [Vertices  |-> AsSeq(ChocolateVertices(c.width, c.height, c.depth, junk.vertex)),
          Indices32 |-> AsSeq(ChocolateIndices(junk.index))]
    [] c.fn = "CreateBar2" ->
         [Vertices  |-> Bar2Vertices(c.width, c.height, c.depth),
          Indices32 |-> Bar2Indices]
    [] c.fn = "CreateCandy" ->
         [Vertices  |-> CandyVertices(c.width, c.height, c.depth),
          Indices32 |-> CandyIndices]
    [] c.fn = "CreateTetrahedron" ->
         [Vertices  |-> TetrahedronVertices(c.width, c.height, c.depth),
          Indices32 |-> TetrahedronIndices]
    [] c.fn = "CreatePyramid" ->
         [Vertices  |-> PyramidVertices(c.width, c.height, c.depth),
          Indices32 |-> PyramidIndices]
    [] c.fn = "CreateWedge" ->
         [Vertices  |-> WedgeVertices(c.width, c.height, c.depth),
          Indices32 |-> WedgeIndices]
    [] c.fn = "CreateHexagon" ->
         [Vertices  |-> AsSeq(HexagonVertices(c.width, c.height, c.depth, junk.vertex)),
          Indices32 |-> HexagonIndices]
    [] c.fn = "CreateDiamond" ->
         [Vertices  |-> DiamondVertices(c.width, c.height, c.depth),
          Indices32 |-> AsSeq(DiamondIndices(junk.index))]

\* C5: with numSubdivisions = 0 every generator that takes the parameter
\* completes by a return statement and returns its base mesh after zero
\* Subdivide passes; no call leaves the function body without returning.
ZeroSubdivisionsReturnBase ==
  (pc # "idle" /\ call.fn \in Subdividing /\ call.numSubdivisions = 0) =>
     /\ pc = "returned"
     /\ passes = 0
     /\ call.fn \in BoxLike =>
          \E junk \in Junk : meshData = BaseTables(call, junk)
     /\ call.fn = "CreateGeosphere" =>
          /\ NumVertices(meshData) = 12
          /\ meshData.Indices32 = IcosahedronIndices

\* a CreateDiamond call with numSubdivisions = 0 left the function body
\* without a return statement
DiamondFellOffEnd ==
  pc = "fell_off_end" /\ call.fn = "CreateDiamond" /\ call.numSubdivisions = 0

\* C9: with numSubdivisions = 0 CreateBox and CreateBar return 24 vertices
\* and 36 indices; face f (0..5) owns the vertex slots 4f..4f+3 and the two
\* triangles at index slots 6f..6f+5, which use all four of its vertices
\* and no others.
BoxFaces ==
  (pc = "returned" /\ call.fn \in {"CreateBox", "CreateBar"}
     /\ call.numSubdivisions = 0) =>
     /\ NumVertices(meshData) = 24
     /\ NumIndices(meshData) = 36
     /\ \A f \in 0..5 :
          /\ { meshData.Indices32[q] : q \in (6 * f + 1)..(6 * f + 6) }
               = (4 * f)..(4 * f + 3)
          /\ \A q \in 1..36 :
               meshData.Indices32[q] \in (4 * f)..(4 * f + 3)
                 => q \in (6 * f + 1)..(6 * f + 6)

\* a CreateBox call with numSubdivisions = 0 has returned
BoxReturnedUnsubdivided ==
  pc = "returned" /\ call.fn = "CreateBox" /\ call.numSubdivisions = 0

\* C10 (as stated): CreateBox scales its top corners by 0.9 on x and z only;
\* their y stays at +height/2, and the bottom corners stay at the unscaled
\* half-extents.
BoxTopInsetXZOnly ==
  (pc = "returned" /\ call.fn = "CreateBox" /\ call.numSubdivisions = 0) =>
     \A k \in 1..NumVertices(meshData) :
       LET p == meshData.Vertices[k].Position
           w2 == Scale(call.width, 1, 2)
           h2 == Scale(call.height, 1, 2)
           d2 == Scale(call.depth, 1, 2)
       IN IF p[2] > 0
            THEN /\ Abs(p[1]) = Scale(w2, 9, 10)
                 /\ p[2] = h2
                 /\ Abs(p[3]) = Scale(d2, 9, 10)
            ELSE Abs(p[1]) = w2 /\ p[2] = -h2 /\ Abs(p[3]) = d2

\* C10 (amended): CreateBox scales its top corners by 0.9 on all three axes,
\* so their y is 0.9 * height/2; the bottom corners stay at the unscaled
\* half-extents.
BoxTopInsetAllAxes ==
  (pc = "returned" /\ call.fn = "CreateBox" /\ call.numSubdivisions = 0) =>
     \A k \in 1..NumVertices(meshData) :
       LET p == meshData.Vertices[k].Position
           w2 == Scale(call.width, 1, 2)
           h2 == Scale(call.height, 1, 2)
           d2 == Scale(call.depth, 1, 2)
       IN IF p[2] > 0
            THEN /\ Abs(p[1]) = Scale(w2, 9, 10)
                 /\ p[2] = Scale(h2, 9, 10)
                 /\ Abs(p[3]) = Scale(d2, 9, 10)
            ELSE Abs(p[1]) = w2 /\ p[2] = -h2 /\ Abs(p[3]) = d2

\* a CreateBox mesh of a box with three different extents, holding top and
\* bottom corners
BoxWithTopAndBottom ==
  /\ pc = "returned" /\ call.fn = "CreateBox" /\ call.numSubdivisions = 0
  /\ call.width # call.height /\ call.height = 2 * One
  /\ \E k \in 1..NumVertices(meshData) : meshData.Vertices[k].Position[2] > 0
  /\ \E k \in 1..NumVertices(meshData) : meshData.Vertices[k].Position[2] < 0

-----------------------------------------------------------------------------
(* Properties of Subdivide (SpecSub) *)

\* C2: one Subdivide call on a mesh of T triangles yields 4T triangles, 12T
\* indices and 6T vertices, however many vertices the triangles shared; n
\* calls on a mesh of T0 triangles yield T0 * 4^n triangles and, for n >= 1,
\* 6 * T0 * 4^(n-1) vertices.
SubdivideCounts ==
  (pc = "sub" /\ passes >= 1) =>
     LET T == NumTriangles(inputCopy)
         T0 == NumTriangles(call.meshData)
     IN /\ IndicesInBounds(inputCopy)
        /\ NumTriangles(meshData) = 4 * T
        /\ NumIndices(meshData) = 12 * T
        /\ NumVertices(meshData) = 6 * T
        /\ NumTriangles(meshData) = T0 * 4 ^ passes
        /\ NumVertices(meshData) = 6 * T0 * 4 ^ (passes - 1)

\* six passes over one triangle of a mesh holding a vertex it does not use
SubdividedSixTimes ==
  /\ pc = "sub" /\ passes = 6
  /\ NumTriangles(meshData) = 4096
  /\ NumVertices(call.meshData) > 3 * NumTriangles(call.meshData)

FaceNormal(a, b, c) == Cross(Sub3(b, a), Sub3(c, a))

\* C3: for source triangle i = (v0, v1, v2) the output slots 6i..6i+5 hold
\* v0, v1, v2 unchanged and the midpoints m0 = mid(v0,v1), m1 = mid(v1,v2),
\* m2 = mid(v0,v2); its twelve indices are the triangles (v0,m0,m2),
\* (m0,m1,m2), (m2,m1,v2), (m0,v1,m1), all within 6i..6i+5, and each of the
\* four is wound as the source triangle (its face normal is a quarter of the
\* source's).
SubdivideLayout ==
  (pc = "sub" /\ passes >= 1) =>
     \A i \in 0..(NumTriangles(inputCopy) - 1) :
       LET v0 == inputCopy.Vertices[inputCopy.Indices32[3 * i + 1] + 1]
           v1 == inputCopy.Vertices[inputCopy.Indices32[3 * i + 2] + 1]
           v2 == inputCopy.Vertices[inputCopy.Indices32[3 * i + 3] + 1]
           Out(k) == meshData.Vertices[6 * i + k + 1]
           Idx(s) == meshData.Indices32[12 * i + s + 1]
           Pos(s) == meshData.Vertices[Idx(s) + 1].Position
           source == FaceNormal(v0.Position, v1.Position, v2.Position)
       IN /\ Out(0) = v0 /\ Out(1) = v1 /\ Out(2) = v2
          /\ Out(3) = MidPoint(v0, v1)
          /\ Out(4) = MidPoint(v1, v2)
          /\ Out(5) = MidPoint(v0, v2)
          /\ Add3(Out(3).Position, Out(3).Position) = Add3(v0.Position, v1.Position)
          /\ Add3(Out(4).Position, Out(4).Position) = Add3(v1.Position, v2.Position)
          /\ Add3(Out(5).Position, Out(5).Position) = Add3(v0.Position, v2.Position)
          /\ <<Idx(0), Idx(1), Idx(2)>> = <<6 * i, 6 * i + 3, 6 * i + 5>>
          /\ <<Idx(3), Idx(4), Idx(5)>> = <<6 * i + 3, 6 * i + 4, 6 * i + 5>>
          /\ <<Idx(6), Idx(7), Idx(8)>> = <<6 * i + 5, 6 * i + 4, 6 * i + 2>>
          /\ <<Idx(9), Idx(10), Idx(11)>> = <<6 * i + 3, 6 * i + 1, 6 * i + 4>>
          /\ \A s \in 0..11 : Idx(s) \in (6 * i)..(6 * i + 5)
          /\ \A t \in 0..3 :
               LET n == FaceNormal(Pos(3 * t), Pos(3 * t + 1), Pos(3 * t + 2))
               IN <<4 * n[1], 4 * n[2], 4 * n[3]>> = source

\* a second pass over triangles, one of which has a non-zero face normal
SubdividedProperTriangle ==
  /\ pc = "sub" /\ passes = 2
  /\ \E i \in 0..(NumTriangles(inputCopy) - 1) :
       FaceNormal(inputCopy.Vertices[inputCopy.Indices32[3 * i + 1] + 1].Position,
                  inputCopy.Vertices[inputCopy.Indices32[3 * i + 2] + 1].Position,
                  inputCopy.Vertices[inputCopy.Indices32[3 * i + 3] + 1].Position)
         # <<0, 0, 0>>

-----------------------------------------------------------------------------
(* Properties of MidPoint (SpecMid) *)

\* |n| = 1 within one percent of the squared length
IsUnit(n) == 100 * Abs(Dot(n, n) - NormOne * NormOne) <= NormOne * NormOne

\* C7: the midpoint of two vertices with unit-length normals has a
\* unit-length normal, also when the two normals are opposite.
MidPointUnitNormal ==
  (pc = "mid_done" /\ IsUnit(call.v0.Normal) /\ IsUnit(call.v1.Normal)) =>
     IsUnit(midpoint.Normal)

\* the midpoint of two vertices with opposite unit normals
MidPointOfOppositeNormals ==
  /\ pc = "mid_done"
  /\ IsUnit(call.v0.Normal)
  /\ Add3(call.v0.Normal, call.v1.Normal) = <<0, 0, 0>>

\* C8: MidPoint is symmetric in its position: MidPoint(a, b).Position =
\* MidPoint(b, a).Position, so the midpoints two triangles compute for a
\* shared edge coincide whichever way each traverses it.
MidPointSymmetric ==
  pc = "mid_done" =>
    /\ midpoint = MidPoint(call.v0, call.v1)
    /\ midpoint.Position = MidPoint(call.v1, call.v0).Position

\* the midpoint of two vertices at different positions
MidPointOfDistinctPositions ==
  pc = "mid_done" /\ call.v0.Position # call.v1.Position

-----------------------------------------------------------------------------
(* Determinism (SpecDet) *)

\* C6: two calls of the same generator with identical arguments return
\* identical MeshData, whatever the uninitialised table slots hold.
Deterministic ==
  (previous.pc = "returned" /\ pc = "returned") =>
     meshData = previous.meshData

\* the same call returned two different meshes
SecondCallDiffers ==
  /\ previous.pc = "returned" /\ pc = "returned"
  /\ meshData # previous.meshData

-----------------------------------------------------------------------------
(* CreateGeosphere step by step: the clamp and the icosahedron, one        *)
(* Subdivide call per loop iteration, then the projection loop and the     *)
(* return.  locals.numSubdivisions is the parameter after the clamp and    *)
(* locals.i the loop counter; inputCopy keeps the mesh as it was before    *)
(* the projection loop.                                                    *)

GeosphereCalls ==
  Tagged("CreateGeosphere", GeosphereArgs)

InitGeo ==
  /\ pc = "idle"
  /\ call \in GeosphereCalls
  /\ meshData = EmptyMesh
  /\ inputCopy = EmptyMesh
  /\ passes = 0
  /\ midpoint = NoVertex
  /\ previous = NoPrevious
  /\ locals = NoLocals
  /\ app = NoApp

\* the projection of one vertex onto the sphere, with its texture
\* coordinates (atan2f and acosf kept symbolic) and its tangent
ProjectOntoSphere(v, radius) ==
  LET n == XMVector3Normalize(v.Position)
      p == <<Mul(radius, n[1]), Mul(radius, n[2]), Mul(radius, n[3])>>
  IN [Position |-> p,
      Normal   |-> n,
      TangentU |-> XMVector3Normalize(<<-p[3], 0, p[1]>>),
      TexC     |-> << <<"atan2f", p[3], p[1]>>, <<"acosf", p[2], radius>> >>]

\* entry: the clamp, Vertices.resize(12), Indices32.assign, the positions
GeosphereEnter ==
  /\ pc = "idle"
  /\ \E junkVertex \in JunkVertices :
       meshData' = [Vertices  |-> AsSeq([i \in 1..12 |->
                                    [junkVertex EXCEPT !.Position = IcosahedronPos[i]]]),
                    Indices32 |-> AsSeq(IcosahedronIndices)]
  /\ locals' = [i |-> 0, numSubdivisions |-> Min(call.numSubdivisions, 6)]
  /\ pc' = "subdividing"
  /\ UNCHANGED <<call, inputCopy, passes, midpoint, previous, app>>

\* one iteration of  for(uint32 i = 0; i < numSubdivisions; ++i)
GeosphereSubdivide ==
  /\ pc = "subdividing"
  /\ locals.i < locals.numSubdivisions
  /\ meshData' = Subdivide(meshData)
  /\ passes' = passes + 1
  /\ locals' = [locals EXCEPT !.i = @ + 1]
  /\ UNCHANGED <<pc, call, inputCopy, midpoint, previous, app>>

\* the loop is left: every vertex is projected onto the sphere and the
\* mesh is returned
GeosphereProject ==
  /\ pc = "subdividing"
  /\ ~(locals.i < locals.numSubdivisions)
  /\ inputCopy' = meshData
  /\ meshData' = [meshData EXCEPT !.Vertices =
                    AsSeq([i \in 1..Len(meshData.Vertices) |->
                             ProjectOntoSphere(meshData.Vertices[i], call.radius)])]
  /\ pc' = "returned"
  /\ UNCHANGED <<call, passes, midpoint, previous, locals, app>>

NextGeo ==
  \/ GeosphereEnter
  \/ GeosphereSubdivide
  \/ GeosphereProject

SpecGeo == InitGeo /\ [][NextGeo]_vars

-----------------------------------------------------------------------------
(* The caps on their own: BuildCylinderTopCap and BuildCylinderBottomCap   *)
(* append to the mesh passed by reference.  The caller's mesh is empty,    *)
(* the side of the cylinder (as in CreateCylinder) or a quad; inputCopy    *)
(* keeps the mesh as it was before the call.                               *)

CapCalls ==
  Tagged("BuildCylinderTopCap", CylinderArgs)
    \cup Tagged("BuildCylinderBottomCap", CylinderArgs)

\* the meshes a cap is appended to
CapInputs(c) ==
  { EmptyMesh,
    CreateQuad(0, 0, One, One, 0).meshData,
    [Vertices  |-> SideVertices(c.bottomRadius,
                                RoundDiv(c.topRadius - c.bottomRadius, c.stackCount),
                                c.bottomRadius - c.topRadius, c.height,
                                c.sliceCount, c.stackCount),
     Indices32 |-> SideIndices(c.sliceCount, c.stackCount)] }

InitCap ==
  /\ \/ /\ pc = "cap"
        /\ call \in CapCalls
        /\ meshData \in CapInputs(call)
     \/ /\ pc = "idle"
        /\ call \in Tagged("CreateCylinder", CylinderArgs)
        /\ meshData = EmptyMesh
  /\ inputCopy = EmptyMesh
  /\ passes = 0
  /\ midpoint = NoVertex
  /\ previous = NoPrevious
  /\ locals = NoLocals
  /\ app = NoApp

BuildCylinderTopCapCall ==
  /\ pc = "cap"
  /\ call.fn = "BuildCylinderTopCap"
  /\ inputCopy' = meshData
  /\ meshData' = BuildCylinderTopCap(call.bottomRadius, call.topRadius, call.height,
                                     call.sliceCount, call.stackCount, meshData)
  /\ pc' = "cap_done"
  /\ UNCHANGED <<call, passes, midpoint, previous, locals, app>>

BuildCylinderBottomCapCall ==
  /\ pc = "cap"
  /\ call.fn = "BuildCylinderBottomCap"
  /\ inputCopy' = meshData
  /\ meshData' = BuildCylinderBottomCap(call.bottomRadius, call.topRadius, call.height,
                                        call.sliceCount, call.stackCount, meshData)
  /\ pc' = "cap_done"
  /\ UNCHANGED <<call, passes, midpoint, previous, locals, app>>

NextCap ==
  \/ BuildCylinderTopCapCall
  \/ BuildCylinderBottomCapCall
  \/ CreateCylinderCall

SpecCap == InitCap /\ [][NextCap]_vars

-----------------------------------------------------------------------------
(* CreateSphere step by step, for every slice and stack count.             *)
(*                                                                         *)
(* sliceCount, stackCount and the loop counters are uint32.  A uint32 is   *)
(* kept as its 32-bit pattern read as a two's complement integer, so that  *)
(* 0 - 1 is -1, the pattern 0xFFFFFFFF of the value 2^32 - 1; ULess and    *)
(* ULessEq compare two patterns as the unsigned values they stand for.     *)
(* A std::vector holds at most MaxElements elements: a push_back beyond    *)
(* that throws std::bad_alloc, which leaves CreateSphere without a return. *)

MaxElements == 80

ULess(a, b) == IF (a >= 0) = (b >= 0) THEN a < b ELSE b < 0
ULessEq(a, b) == a = b \/ ULess(a, b)

\* the vertex of ring i at slice j.  phiStep = XM_PI/stackCount and
\* thetaStep = 2*XM_PI/sliceCount are infinite for a zero count: then
\* phi = i*phiStep is infinite, theta = 0*thetaStep is NaN, and sinf and
\* cosf of either are NaN.
SphereRingVertex(radius, sliceCount, stackCount, i, j) ==
  IF stackCount = 0
    THEN [Position |-> <<"NaN", "NaN", "NaN">>,
          Normal   |-> <<"NaN", "NaN", "NaN">>,
          TangentU |-> <<"NaN", "NaN", "NaN">>,
          TexC     |-> <<IF sliceCount = 0 THEN "NaN" ELSE Fixed(j, sliceCount),
                         "inf">>]
  ELSE IF sliceCount = 0
    THEN [Position |-> <<"NaN", Mul(radius, Cos(i, stackCount)), "NaN">>,
          Normal   |-> <<"NaN", "NaN", "NaN">>,
          TangentU |-> <<"NaN", "NaN", "NaN">>,
          TexC     |-> <<"NaN", Fixed(i, stackCount)>>]
  ELSE
    LET sinPhi == Sin(i, stackCount)
        cosPhi == Cos(i, stackCount)
        sinTheta == Sin(2 * j, sliceCount)
        cosTheta == Cos(2 * j, sliceCount)
        position == <<Mul(Mul(radius, sinPhi), cosTheta),
                      Mul(radius, cosPhi),
                      Mul(Mul(radius, sinPhi), sinTheta)>>
        tangent == <<-Mul(Mul(radius, sinPhi), sinTheta), 0,
                      Mul(Mul(radius, sinPhi), cosTheta)>>
    IN [Position |-> position,
        Normal   |-> XMVector3Normalize(position),
        TangentU |-> XMVector3Normalize(tangent),
        TexC     |-> <<Fixed(j, sliceCount), Fixed(i, stackCount)>>]

\* the indices pushed by the loop over the top stack
SphereTopFan(sliceCount) ==
  PushAll(LAMBDA i : <<0, i + 1, i>>, 1, sliceCount)

\* the indices pushed by iteration i of the loop over the inner stacks
SphereInnerStack(i, sliceCount) ==
  LET baseIndex == 1
      ringVertexCount == sliceCount + 1
  IN PushAll(LAMBDA j : <<baseIndex + i * ringVertexCount + j,
                          baseIndex + i * ringVertexCount + j + 1,
                          baseIndex + (i + 1) * ringVertexCount + j,
                          baseIndex + (i + 1) * ringVertexCount + j,
                          baseIndex + i * ringVertexCount + j + 1,
                          baseIndex + (i + 1) * ringVertexCount + j + 1>>,
             0, sliceCount - 1)

\* the bottom fan with baseIndex one slot too far: southPoleIndex - sliceCount
SphereBottomFanPastSeam(vertexCount, sliceCount) ==
  LET southPoleIndex == vertexCount - 1
      baseIndex == southPoleIndex - sliceCount
  IN PushAll(LAMBDA i : <<southPoleIndex, baseIndex + i, baseIndex + i + 1>>,
             0, sliceCount - 1)

\* the indices pushed by the loop over the bottom stack
SphereBottomFan(vertexCount, sliceCount) ==
  LET southPoleIndex == vertexCount - 1
      ringVertexCount == sliceCount + 1
      baseIndex == southPoleIndex - ringVertexCount
  IN PushAll(LAMBDA i : <<southPoleIndex, baseIndex + i, baseIndex + i + 1>>,
             0, sliceCount - 1)

SphereCounts ==
  [radius : Dims, sliceCount : 0..MaxSliceCount, stackCount : 0..MaxStackCount]

InitSphere ==
  /\ pc = "idle"
  /\ call \in Tagged("CreateSphere", SphereCounts)
  /\ meshData = EmptyMesh
  /\ inputCopy = EmptyMesh
  /\ passes = 0
  /\ midpoint = NoVertex
  /\ previous = NoPrevious
  /\ locals = NoLocals
  /\ app = NoApp

\* push_back failed: the exception unwinds the call and destroys its mesh
BadAlloc ==
  /\ pc' = "bad_alloc"
  /\ meshData' = EmptyMesh
  /\ locals' = NoLocals

\* entry: the top pole is pushed and the ring loop starts at i = 1
SphereEnter ==
  /\ pc = "idle"
  /\ pc' = "rings"
  /\ meshData' = [Vertices  |-> <<Vertex(0, call.radius, 0, 0, 1, 0, 1, 0, 0, 0, 0)>>,
                  Indices32 |-> <<>>]
  /\ locals' = [i |-> 1]
  /\ UNCHANGED <<call, inputCopy, passes, midpoint, previous, app>>

\* one iteration of  for(uint32 i = 1; i <= stackCount-1; ++i)
SphereRing ==
  /\ pc = "rings"
  /\ ULessEq(locals.i, call.stackCount - 1)
  /\ LET ring == PushAll(LAMBDA j : <<SphereRingVertex(call.radius, call.sliceCount,
                                                       call.stackCount, locals.i, j)>>,
                         0, call.sliceCount)
     IN IF Len(meshData.Vertices) + Len(ring) > MaxElements
          THEN BadAlloc
          ELSE /\ meshData' = [meshData EXCEPT !.Vertices = @ \o ring]
               /\ locals' = [i |-> locals.i + 1]
               /\ pc' = pc
  /\ UNCHANGED <<call, inputCopy, passes, midpoint, previous, app>>

\* the ring loop is left: the bottom pole and the top fan are pushed and
\* the loop over the inner stacks starts at i = 0
SphereRingsDone ==
  /\ pc = "rings"
  /\ ~ULessEq(locals.i, call.stackCount - 1)
  /\ LET bottomVertex == Vertex(0, -call.radius, 0, 0, -1, 0, 1, 0, 0, 0, 1)
         fan == SphereTopFan(call.sliceCount)
     IN IF \/ Len(meshData.Vertices) + 1 > MaxElements
           \/ Len(meshData.Indices32) + Len(fan) > MaxElements
          THEN BadAlloc
          ELSE /\ meshData' = [Vertices  |-> meshData.Vertices \o <<bottomVertex>>,
                               Indices32 |-> meshData.Indices32 \o fan]
               /\ locals' = [i |-> 0]
               /\ pc' = "stacks"
  /\ UNCHANGED <<call, inputCopy, passes, midpoint, previous, app>>

\* one iteration of  for(uint32 i = 0; i < stackCount-2; ++i); with
\* sliceCount = 0 the inner loop pushes nothing and the remaining
\* iterations only count i up to stackCount-2
SphereStack ==
  /\ pc = "stacks"
  /\ ULess(locals.i, call.stackCount - 2)
  /\ IF call.sliceCount = 0
       THEN /\ locals' = [i |-> call.stackCount - 2]
            /\ UNCHANGED <<pc, meshData, app>>
       ELSE LET quads == SphereInnerStack(locals.i, call.sliceCount)
            IN IF Len(meshData.Indices32) + Len(quads) > MaxElements
                 THEN BadAlloc
                 ELSE /\ meshData' = [meshData EXCEPT !.Indices32 = @ \o quads]
                      /\ locals' = [i |-> locals.i + 1]
                      /\ pc' = pc
  /\ UNCHANGED <<call, inputCopy, passes, midpoint, previous, app>>

\* the loop over the inner stacks is left: the bottom fan is pushed and the
\* mesh is returned
SphereStacksDone ==
  /\ pc = "stacks"
  /\ ~ULess(locals.i, call.stackCount - 2)
  /\ LET fan == SphereBottomFan(Len(meshData.Vertices), call.sliceCount)
     IN IF Len(meshData.Indices32) + Len(fan) > MaxElements
          THEN BadAlloc
          ELSE /\ meshData' = [meshData EXCEPT !.Indices32 = @ \o fan]
               /\ locals' = NoLocals
               /\ pc' = "returned"
  /\ UNCHANGED <<call, inputCopy, passes, midpoint, previous, app>>

NextSphere ==
  \/ SphereEnter
  \/ SphereRing
  \/ SphereRingsDone
  \/ SphereStack
  \/ SphereStacksDone

SpecSphere == InitSphere /\ [][NextSphere]_vars

-----------------------------------------------------------------------------
(* CreateGrid step by step, for every m and n.  m, n, vertexCount,         *)
(* faceCount, i, j and k are uint32, kept as 32-bit patterns like the      *)
(* counters of CreateSphere.  locals.written is the history of the         *)
(* Indices32 slots assigned so far, in the order of the assignments.  An   *)
(* assignment to a slot at or beyond Indices32.size() is undefined         *)
(* behaviour: the call is then left in "out_of_bounds_write".              *)

GridCounts ==
  [width : Dims, depth : Dims, m : 0..MaxGrid, n : 0..MaxGrid]

InitGrid ==
  /\ pc = "idle"
  /\ call \in Tagged("CreateGrid", GridCounts)
  /\ meshData = EmptyMesh
  /\ inputCopy = EmptyMesh
  /\ passes = 0
  /\ midpoint = NoVertex
  /\ previous = NoPrevious
  /\ locals = NoLocals
  /\ app = NoApp

\* the vertex written by iteration (i, j) of the vertex loops.  dx and du
\* are infinite for n = 1, dz and dv for m = 1, and 0 times infinity is NaN.
GridVertex(width, depth, m, n, i, j) ==
  LET halfWidth == Half(width)
      halfDepth == Half(depth)
      x == IF n = 1 THEN "NaN" ELSE -halfWidth + j * RoundDiv(width, n - 1)
      z == IF m = 1 THEN "NaN" ELSE halfDepth - i * RoundDiv(depth, m - 1)
      u == IF n = 1 THEN "NaN" ELSE j * RoundDiv(One, n - 1)
      v == IF m = 1 THEN "NaN" ELSE i * RoundDiv(One, m - 1)
  IN [Position |-> <<x, 0, z>>,
      Normal   |-> <<0, NormOne, 0>>,
      TangentU |-> <<NormOne, 0, 0>>,
      TexC     |-> <<u, v>>]

\* the six assignments of iteration (i, j) of the index loops with k
\* advancing by 5 instead of 6: the quads overlap by one slot
GridQuadWritesOverlapping(i, j, n, k) ==
  << <<k - j,     i * n + j>>,
     <<k - j + 1, i * n + j + 1>>,
     <<k - j + 2, (i + 1) * n + j>>,
     <<k - j + 3, (i + 1) * n + j>>,
     <<k - j + 4, i * n + j + 1>>,
     <<k - j + 5, (i + 1) * n + j + 1>> >>

\* the six assignments <<slot, value>> of iteration (i, j) of the index
\* loops, k being the counter at the start of the iteration
GridQuadWrites(i, j, n, k) ==
  << <<k,     i * n + j>>,
     <<k + 1, i * n + j + 1>>,
     <<k + 2, (i + 1) * n + j>>,
     <<k + 3, (i + 1) * n + j>>,
     <<k + 4, i * n + j + 1>>,
     <<k + 5, (i + 1) * n + j + 1>> >>

\* the assignments of a whole row i of quads: iterations j = 0 .. quads-1
\* of the inner loop, the counter being k when the row starts
GridRowWrites(i, n, k, quads) ==
  PushAll(LAMBDA j : GridQuadWrites(i, j, n, k + 6 * j), 0, quads - 1)

\* a vector after the assignments w (a sequence of <<slot, value>>)
RECURSIVE Assign(_, _)
Assign(f, w) ==
  IF w = <<>> THEN f
  ELSE Assign([f EXCEPT ![w[1][1] + 1] = w[1][2]], Tail(w))

\* entry: the counts and Vertices.resize(vertexCount)
GridEnter ==
  /\ pc = "idle"
  /\ LET vertexCount == call.m * call.n
         faceCount == (call.m - 1) * (call.n - 1) * 2
     IN IF ULess(MaxElements, vertexCount)
          THEN BadAlloc
          ELSE /\ \E junkVertex \in JunkVertices :
                    meshData' = [Vertices  |-> AsSeq([p \in 1..vertexCount |-> junkVertex]),
                                 Indices32 |-> <<>>]
               /\ locals' = [i |-> 0, k |-> 0, faceCount |-> faceCount,
                             written |-> <<>>]
               /\ pc' = "vertices"
  /\ UNCHANGED <<call, inputCopy, passes, midpoint, previous, app>>

\* one iteration of  for(uint32 i = 0; i < m; ++i)  with its inner loop
GridVertexRow ==
  /\ pc = "vertices"
  /\ ULess(locals.i, call.m)
  /\ LET i == locals.i
         row == PushAll(LAMBDA j : << <<i * call.n + j,
                                        GridVertex(call.width, call.depth,
                                                   call.m, call.n, i, j)>> >>,
                        0, call.n - 1)
     IN meshData' = [meshData EXCEPT !.Vertices = AsSeq(Assign(@, row))]
  /\ locals' = [locals EXCEPT !.i = @ + 1]
  /\ UNCHANGED <<pc, call, inputCopy, passes, midpoint, previous, app>>

\* the vertex loop is left: Indices32.resize(faceCount*3), k = 0
GridResizeIndices ==
  /\ pc = "vertices"
  /\ ~ULess(locals.i, call.m)
  /\ IF ULess(MaxElements, locals.faceCount * 3)
       THEN BadAlloc
       ELSE /\ meshData' = [meshData EXCEPT !.Indices32 =
                              AsSeq([q \in 1..(locals.faceCount * 3) |-> 0])]
            /\ locals' = [locals EXCEPT !.i = 0, !.k = 0]
            /\ pc' = "indices"
  /\ UNCHANGED <<call, inputCopy, passes, midpoint, previous, app>>

\* one iteration of  for(uint32 i = 0; i < m-1; ++i)  with its inner loop
\* for(uint32 j = 0; j < n-1; ++j).  The inner loop assigns six slots per
\* iteration; when it has more iterations than quads fit between k and the
\* end of Indices32, it writes past the end.  With n = 1 the inner loop
\* assigns nothing and the remaining iterations only count i up to m-1.
GridIndexRow ==
  /\ pc = "indices"
  /\ ULess(locals.i, call.m - 1)
  /\ LET size == Len(meshData.Indices32)
         fit == (size - locals.k) \div 6
         quads == call.n - 1
     IN IF quads = 0
          THEN /\ locals' = [locals EXCEPT !.i = call.m - 1]
               /\ UNCHANGED <<pc, meshData, app>>
          ELSE IF ULess(fit, quads)
            THEN LET w == GridRowWrites(locals.i, call.n, locals.k, fit)
                 IN /\ meshData' = [meshData EXCEPT !.Indices32 = AsSeq(Assign(@, w))]
                    /\ locals' = [locals EXCEPT !.k = @ + 6 * fit,
                                    !.written = @ \o [q \in 1..Len(w) |-> w[q][1]]]
                    /\ pc' = "out_of_bounds_write"
            ELSE LET w == GridRowWrites(locals.i, call.n, locals.k, quads)
                 IN /\ meshData' = [meshData EXCEPT !.Indices32 = AsSeq(Assign(@, w))]
                    /\ locals' = [locals EXCEPT !.i = @ + 1, !.k = @ + 6 * quads,
                                    !.written = @ \o [q \in 1..Len(w) |-> w[q][1]]]
                    /\ pc' = pc
  /\ UNCHANGED <<call, inputCopy, passes, midpoint, previous, app>>

\* the index loop is left: the mesh is returned
GridReturn ==
  /\ pc = "indices"
  /\ ~ULess(locals.i, call.m - 1)
  /\ pc' = "returned"
  /\ UNCHANGED <<call, meshData, inputCopy, passes, midpoint, previous, locals, app>>

NextGrid ==
  \/ GridEnter
  \/ GridVertexRow
  \/ GridResizeIndices
  \/ GridIndexRow
  \/ GridReturn

SpecGrid == InitGrid /\ [][NextGrid]_vars

-----------------------------------------------------------------------------
(* ShapesApp::BuildShapeGeometry: the meshes are built, their vertices are *)
(* copied one mesh after the other into one vertex array and their 16-bit  *)
(* indices into one index vector; DrawArgs records for each name where its *)
(* vertices and indices start.                                             *)

MaxShapeSubdiv == 1

\* MeshData::GetIndices16: the 32-bit indices narrowed to 16 bits
GetIndices16(m) == [q \in 1..Len(m.Indices32) |-> m.Indices32[q] % 65536]

\* the body of a copy loop: position and colour of every vertex of m
CopyVertices(m, color) ==
  [i \in 1..Len(m.Vertices) |-> [Pos |-> m.Vertices[i].Position, Color |-> color]]

\* the meshes built at the start of BuildShapeGeometry.  The literal counts
\* of the calls (3 subdivisions, a 60x40 grid, 20 slices and stacks) are
\* replaced by the counts of c; the extents are those of the code.
ShapeMeshes(c, junk) ==
  LET box == CreateBox(One, One, One, c.numSubdivisions).meshData
      grid == CreateGrid(20 * One, 30 * One, c.m, c.n, junk).meshData
      sphere == CreateSphere(Half(One), c.sliceCount, c.stackCount).meshData
      cylinder == CreateCylinder(Half(One), Half(One), One, c.sliceCount, c.stackCount).meshData
      hexagon == CreateHexagon(One, One, One, c.numSubdivisions, junk).meshData
      tetrahedron == CreateTetrahedron(One, One, One, c.numSubdivisions).meshData
      pyramid == CreatePyramid(One, One, One, c.numSubdivisions).meshData
      diamond == CreateDiamond(3 * One, 10 * One, 3 * One, c.numSubdivisions, junk).meshData
      cone == CreateCone(Half(One), One, c.sliceCount, c.stackCount).meshData
      wedge == CreateWedge(One, One, One, c.numSubdivisions).meshData
      quad == CreateQuad(0, 0, One, One, 3 * One).meshData
      bar == CreateBar(One, One, One, c.numSubdivisions).meshData
      boxthree == box
      boxfour == box
      boxfive == box
      boxsix == box
      cylinder2 == cylinder
      cylinder3 == cylinder
      cylinder4 == cylinder
      cylinder5 == cylinder
      wedge2 == wedge
      wedge3 == wedge
      wedge4 == wedge
      cone2 == cone
      cone3 == cone
      cone4 == cone
      cone5 == cone
      geosphere == CreateGeosphere(Half(One), c.geosphereSubdivisions, junk).meshData
  IN [box |-> box,
      grid |-> grid,
      sphere |-> sphere,
      cylinder |-> cylinder,
      hexagon |-> hexagon,
      tetrahedron |-> tetrahedron,
      pyramid |-> pyramid,
      diamond |-> diamond,
      cone |-> cone,
      wedge |-> wedge,
      quad |-> quad,
      bar |-> bar,
      boxthree |-> boxthree,
      boxfour |-> boxfour,
      boxfive |-> boxfive,
      boxsix |-> boxsix,
      cylinder2 |-> cylinder2,
      cylinder3 |-> cylinder3,
      cylinder4 |-> cylinder4,
      cylinder5 |-> cylinder5,
      wedge2 |-> wedge2,
      wedge3 |-> wedge3,
      wedge4 |-> wedge4,
      cone2 |-> cone2,
      cone3 |-> cone3,
      cone4 |-> cone4,
      cone5 |-> cone5,
      geosphere |-> geosphere]

\* the vertex offsets with cylinder2VertexOffset = boxsixVertexOffset: the
\* vertices of boxsix are not counted
ShapeVertexOffsetsSkippingBoxSix(mesh) ==
  LET boxVertexOffset == 0
      gridVertexOffset == Len(mesh.box.Vertices)
      sphereVertexOffset == gridVertexOffset + Len(mesh.grid.Vertices)
      cylinderVertexOffset == sphereVertexOffset + Len(mesh.sphere.Vertices)
      hexagonVertexOffset == cylinderVertexOffset + Len(mesh.cylinder.Vertices)
      tetrahedronVertexOffset == hexagonVertexOffset + Len(mesh.hexagon.Vertices)
      pyramidVertexOffset == tetrahedronVertexOffset + Len(mesh.tetrahedron.Vertices)
      diamondVertexOffset == pyramidVertexOffset + Len(mesh.pyramid.Vertices)
      coneVertexOffset == diamondVertexOffset + Len(mesh.diamond.Vertices)
      wedgeVertexOffset == coneVertexOffset + Len(mesh.cone.Vertices)
      quadVertexOffset == wedgeVertexOffset + Len(mesh.wedge.Vertices)
      barVertexOffset == quadVertexOffset + Len(mesh.quad.Vertices)
      boxthreeVertexOffset == barVertexOffset + Len(mesh.bar.Vertices)
      boxfourVertexOffset == boxthreeVertexOffset + Len(mesh.boxthree.Vertices)
      boxfiveVertexOffset == boxfourVertexOffset + Len(mesh.boxfour.Vertices)
      boxsixVertexOffset == boxfiveVertexOffset + Len(mesh.boxfive.Vertices)
      cylinder2VertexOffset == boxsixVertexOffset
      cylinder3VertexOffset == cylinder2VertexOffset + Len(mesh.cylinder.Vertices)
      cylinder4VertexOffset == cylinder3VertexOffset + Len(mesh.cylinder.Vertices)
      cylinder5VertexOffset == cylinder4VertexOffset + Len(mesh.cylinder.Vertices)
      wedge2VertexOffset == cylinder5VertexOffset + Len(mesh.cylinder.Vertices)
      wedge3VertexOffset == wedge2VertexOffset + Len(mesh.wedge.Vertices)
      wedge4VertexOffset == wedge3VertexOffset + Len(mesh.wedge.Vertices)
      cone2VertexOffset == wedge4VertexOffset + Len(mesh.wedge.Vertices)
      cone3VertexOffset == cone2VertexOffset + Len(mesh.cone.Vertices)
      cone4VertexOffset == cone3VertexOffset + Len(mesh.cone.Vertices)
      cone5VertexOffset == cone4VertexOffset + Len(mesh.cone.Vertices)
      geosphereVertexOffset == cone5VertexOffset + Len(mesh.cone.Vertices)
  IN [box |-> boxVertexOffset,
      grid |-> gridVertexOffset,
      sphere |-> sphereVertexOffset,
      cylinder |-> cylinderVertexOffset,
      hexagon |-> hexagonVertexOffset,
      tetrahedron |-> tetrahedronVertexOffset,
      pyramid |-> pyramidVertexOffset,
      diamond |-> diamondVertexOffset,
      cone |-> coneVertexOffset,
      wedge |-> wedgeVertexOffset,
      quad |-> quadVertexOffset,
      bar |-> barVertexOffset,
      boxthree |-> boxthreeVertexOffset,
      boxfour |-> boxfourVertexOffset,
      boxfive |-> boxfiveVertexOffset,
      boxsix |-> boxsixVertexOffset,
      cylinder2 |-> cylinder2VertexOffset,
      cylinder3 |-> cylinder3VertexOffset,
      cylinder4 |-> cylinder4VertexOffset,
      cylinder5 |-> cylinder5VertexOffset,
      wedge2 |-> wedge2VertexOffset,
      wedge3 |-> wedge3VertexOffset,
      wedge4 |-> wedge4VertexOffset,
      cone2 |-> cone2VertexOffset,
      cone3 |-> cone3VertexOffset,
      cone4 |-> cone4VertexOffset,
      cone5 |-> cone5VertexOffset,
      geosphere |-> geosphereVertexOffset]

\* the vertex offsets, each the previous offset plus a mesh's vertex count
ShapeVertexOffsets(mesh) ==
  LET boxVertexOffset == 0
      gridVertexOffset == Len(mesh.box.Vertices)
      sphereVertexOffset == gridVertexOffset + Len(mesh.grid.Vertices)
      cylinderVertexOffset == sphereVertexOffset + Len(mesh.sphere.Vertices)
      hexagonVertexOffset == cylinderVertexOffset + Len(mesh.cylinder.Vertices)
      tetrahedronVertexOffset == hexagonVertexOffset + Len(mesh.hexagon.Vertices)
      pyramidVertexOffset == tetrahedronVertexOffset + Len(mesh.tetrahedron.Vertices)
      diamondVertexOffset == pyramidVertexOffset + Len(mesh.pyramid.Vertices)
      coneVertexOffset == diamondVertexOffset + Len(mesh.diamond.Vertices)
      wedgeVertexOffset == coneVertexOffset + Len(mesh.cone.Vertices)
      quadVertexOffset == wedgeVertexOffset + Len(mesh.wedge.Vertices)
      barVertexOffset == quadVertexOffset + Len(mesh.quad.Vertices)
      boxthreeVertexOffset == barVertexOffset + Len(mesh.bar.Vertices)
      boxfourVertexOffset == boxthreeVertexOffset + Len(mesh.boxthree.Vertices)
      boxfiveVertexOffset == boxfourVertexOffset + Len(mesh.boxfour.Vertices)
      boxsixVertexOffset == boxfiveVertexOffset + Len(mesh.boxfive.Vertices)
      cylinder2VertexOffset == boxsixVertexOffset + Len(mesh.box.Vertices)
      cylinder3VertexOffset == cylinder2VertexOffset + Len(mesh.cylinder.Vertices)
      cylinder4VertexOffset == cylinder3VertexOffset + Len(mesh.cylinder.Vertices)
      cylinder5VertexOffset == cylinder4VertexOffset + Len(mesh.cylinder.Vertices)
      wedge2VertexOffset == cylinder5VertexOffset + Len(mesh.cylinder.Vertices)
      wedge3VertexOffset == wedge2VertexOffset + Len(mesh.wedge.Vertices)
      wedge4VertexOffset == wedge3VertexOffset + Len(mesh.wedge.Vertices)
      cone2VertexOffset == wedge4VertexOffset + Len(mesh.wedge.Vertices)
      cone3VertexOffset == cone2VertexOffset + Len(mesh.cone.Vertices)
      cone4VertexOffset == cone3VertexOffset + Len(mesh.cone.Vertices)
      cone5VertexOffset == cone4VertexOffset + Len(mesh.cone.Vertices)
      geosphereVertexOffset == cone5VertexOffset + Len(mesh.cone.Vertices)
  IN [box |-> boxVertexOffset,
      grid |-> gridVertexOffset,
      sphere |-> sphereVertexOffset,
      cylinder |-> cylinderVertexOffset,
      hexagon |-> hexagonVertexOffset,
      tetrahedron |-> tetrahedronVertexOffset,
      pyramid |-> pyramidVertexOffset,
      diamond |-> diamondVertexOffset,
      cone |-> coneVertexOffset,
      wedge |-> wedgeVertexOffset,
      quad |-> quadVertexOffset,
      bar |-> barVertexOffset,
      boxthree |-> boxthreeVertexOffset,
      boxfour |-> boxfourVertexOffset,
      boxfive |-> boxfiveVertexOffset,
      boxsix |-> boxsixVertexOffset,
      cylinder2 |-> cylinder2VertexOffset,
      cylinder3 |-> cylinder3VertexOffset,
      cylinder4 |-> cylinder4VertexOffset,
      cylinder5 |-> cylinder5VertexOffset,
      wedge2 |-> wedge2VertexOffset,
      wedge3 |-> wedge3VertexOffset,
      wedge4 |-> wedge4VertexOffset,
      cone2 |-> cone2VertexOffset,
      cone3 |-> cone3VertexOffset,
      cone4 |-> cone4VertexOffset,
      cone5 |-> cone5VertexOffset,
      geosphere |-> geosphereVertexOffset]

\* the index offsets, each the previous offset plus a mesh's index count
ShapeIndexOffsets(mesh) ==
  LET boxIndexOffset == 0
      gridIndexOffset == Len(mesh.box.Indices32)
      sphereIndexOffset == gridIndexOffset + Len(mesh.grid.Indices32)
      cylinderIndexOffset == sphereIndexOffset + Len(mesh.sphere.Indices32)
      hexagonIndexOffset == cylinderIndexOffset + Len(mesh.cylinder.Indices32)
      tetrahedronIndexOffset == hexagonIndexOffset + Len(mesh.hexagon.Indices32)
      pyramidIndexOffset == tetrahedronIndexOffset + Len(mesh.tetrahedron.Indices32)
      diamondIndexOffset == pyramidIndexOffset + Len(mesh.pyramid.Indices32)
      coneIndexOffset == diamondIndexOffset + Len(mesh.diamond.Indices32)
      wedgeIndexOffset == coneIndexOffset + Len(mesh.cone.Indices32)
      quadIndexOffset == wedgeIndexOffset + Len(mesh.wedge.Indices32)
      barIndexOffset == quadIndexOffset + Len(mesh.quad.Indices32)
      boxthreeIndexOffset == barIndexOffset + Len(mesh.bar.Indices32)
      boxfourIndexOffset == boxthreeIndexOffset + Len(mesh.boxthree.Indices32)
      boxfiveIndexOffset == boxfourIndexOffset + Len(mesh.boxfour.Indices32)
      boxsixIndexOffset == boxfiveIndexOffset + Len(mesh.boxfive.Indices32)
      cylinder2IndexOffset == boxsixIndexOffset + Len(mesh.box.Indices32)
      cylinder3IndexOffset == cylinder2IndexOffset + Len(mesh.cylinder.Indices32)
      cylinder4IndexOffset == cylinder3IndexOffset + Len(mesh.cylinder.Indices32)
      cylinder5IndexOffset == cylinder4IndexOffset + Len(mesh.cylinder.Indices32)
      wedge2IndexOffset == cylinder5IndexOffset + Len(mesh.cylinder.Indices32)
      wedge3IndexOffset == wedge2IndexOffset + Len(mesh.wedge.Indices32)
      wedge4IndexOffset == wedge3IndexOffset + Len(mesh.wedge.Indices32)
      cone2IndexOffset == wedge4IndexOffset + Len(mesh.wedge.Indices32)
      cone3IndexOffset == cone2IndexOffset + Len(mesh.cone.Indices32)
      cone4IndexOffset == cone3IndexOffset + Len(mesh.cone.Indices32)
      cone5IndexOffset == cone4IndexOffset + Len(mesh.cone.Indices32)
      geosphereIndexOffset == cone5IndexOffset + Len(mesh.cone.Indices32)
  IN [box |-> boxIndexOffset,
      grid |-> gridIndexOffset,
      sphere |-> sphereIndexOffset,
      cylinder |-> cylinderIndexOffset,
      hexagon |-> hexagonIndexOffset,
      tetrahedron |-> tetrahedronIndexOffset,
      pyramid |-> pyramidIndexOffset,
      diamond |-> diamondIndexOffset,
      cone |-> coneIndexOffset,
      wedge |-> wedgeIndexOffset,
      quad |-> quadIndexOffset,
      bar |-> barIndexOffset,
      boxthree |-> boxthreeIndexOffset,
      boxfour |-> boxfourIndexOffset,
      boxfive |-> boxfiveIndexOffset,
      boxsix |-> boxsixIndexOffset,
      cylinder2 |-> cylinder2IndexOffset,
      cylinder3 |-> cylinder3IndexOffset,
      cylinder4 |-> cylinder4IndexOffset,
      cylinder5 |-> cylinder5IndexOffset,
      wedge2 |-> wedge2IndexOffset,
      wedge3 |-> wedge3IndexOffset,
      wedge4 |-> wedge4IndexOffset,
      cone2 |-> cone2IndexOffset,
      cone3 |-> cone3IndexOffset,
      cone4 |-> cone4IndexOffset,
      cone5 |-> cone5IndexOffset,
      geosphere |-> geosphereIndexOffset]

\* geo->DrawArgs: the submesh (IndexCount, StartIndexLocation,
\* BaseVertexLocation) stored under each name
ShapeDrawArgs(mesh, vertexOffset, indexOffset) ==
  [
   box |-> [IndexCount |-> Len(mesh.box.Indices32),
      StartIndexLocation |-> indexOffset.box,
      BaseVertexLocation |-> vertexOffset.box],
   grid |-> [IndexCount |-> Len(mesh.grid.Indices32),
      StartIndexLocation |-> indexOffset.grid,
      BaseVertexLocation |-> vertexOffset.grid],
   sphere |-> [IndexCount |-> Len(mesh.sphere.Indices32),
      StartIndexLocation |-> indexOffset.sphere,
      BaseVertexLocation |-> vertexOffset.sphere],
   cylinder |-> [IndexCount |-> Len(mesh.cylinder.Indices32),
      StartIndexLocation |-> indexOffset.cylinder,
      BaseVertexLocation |-> vertexOffset.cylinder],
   hexagon |-> [IndexCount |-> Len(mesh.hexagon.Indices32),
      StartIndexLocation |-> indexOffset.hexagon,
      BaseVertexLocation |-> vertexOffset.hexagon],
   tetrahedron |-> [IndexCount |-> Len(mesh.tetrahedron.Indices32),
      StartIndexLocation |-> indexOffset.tetrahedron,
      BaseVertexLocation |-> vertexOffset.tetrahedron],
   pyramid |-> [IndexCount |-> Len(mesh.pyramid.Indices32),
      StartIndexLocation |-> indexOffset.pyramid,
      BaseVertexLocation |-> vertexOffset.pyramid],
   diamond |-> [IndexCount |-> Len(mesh.diamond.Indices32),
      StartIndexLocation |-> indexOffset.diamond,
      BaseVertexLocation |-> vertexOffset.diamond],
   cone |-> [IndexCount |-> Len(mesh.cone.Indices32),
      StartIndexLocation |-> indexOffset.cone,
      BaseVertexLocation |-> vertexOffset.cone],
   wedge |-> [IndexCount |-> Len(mesh.wedge.Indices32),
      StartIndexLocation |-> indexOffset.wedge,
      BaseVertexLocation |-> vertexOffset.wedge],
   quad |-> [IndexCount |-> Len(mesh.quad.Indices32),
      StartIndexLocation |-> indexOffset.quad,
      BaseVertexLocation |-> vertexOffset.quad],
   bar |-> [IndexCount |-> Len(mesh.bar.Indices32),
      StartIndexLocation |-> indexOffset.bar,
      BaseVertexLocation |-> vertexOffset.bar],
   boxthree |-> [IndexCount |-> Len(mesh.boxthree.Indices32),
      StartIndexLocation |-> indexOffset.boxthree,
      BaseVertexLocation |-> vertexOffset.boxthree],
   boxfour |-> [IndexCount |-> Len(mesh.boxfour.Indices32),
      StartIndexLocation |-> indexOffset.boxfour,
      BaseVertexLocation |-> vertexOffset.boxfour],
   boxfive |-> [IndexCount |-> Len(mesh.boxfive.Indices32),
      StartIndexLocation |-> indexOffset.boxfive,
      BaseVertexLocation |-> vertexOffset.boxfive],
   boxsix |-> [IndexCount |-> Len(mesh.boxsix.Indices32),
      StartIndexLocation |-> indexOffset.boxsix,
      BaseVertexLocation |-> vertexOffset.boxsix],
   cylinder2 |-> [IndexCount |-> Len(mesh.cylinder.Indices32),
      StartIndexLocation |-> indexOffset.cylinder2,
      BaseVertexLocation |-> vertexOffset.cylinder2],
   cylinder3 |-> [IndexCount |-> Len(mesh.cylinder.Indices32),
      StartIndexLocation |-> indexOffset.cylinder3,
      BaseVertexLocation |-> vertexOffset.cylinder3],
   cylinder4 |-> [IndexCount |-> Len(mesh.cylinder.Indices32),
      StartIndexLocation |-> indexOffset.cylinder4,
      BaseVertexLocation |-> vertexOffset.cylinder4],
   cylinder5 |-> [IndexCount |-> Len(mesh.cylinder.Indices32),
      StartIndexLocation |-> indexOffset.cylinder5,
      BaseVertexLocation |-> vertexOffset.cylinder5],
   wedge2 |-> [IndexCount |-> Len(mesh.wedge.Indices32),
      StartIndexLocation |-> indexOffset.wedge2,
      BaseVertexLocation |-> vertexOffset.wedge2],
   wedge3 |-> [IndexCount |-> Len(mesh.wedge.Indices32),
      StartIndexLocation |-> indexOffset.wedge3,
      BaseVertexLocation |-> vertexOffset.wedge3],
   wedge4 |-> [IndexCount |-> Len(mesh.wedge.Indices32),
      StartIndexLocation |-> indexOffset.wedge4,
      BaseVertexLocation |-> vertexOffset.wedge4],
   cone2 |-> [IndexCount |-> Len(mesh.cone.Indices32),
      StartIndexLocation |-> indexOffset.cone2,
      BaseVertexLocation |-> vertexOffset.cone2],
   cone3 |-> [IndexCount |-> Len(mesh.cone.Indices32),
      StartIndexLocation |-> indexOffset.cone3,
      BaseVertexLocation |-> vertexOffset.cone3],
   cone4 |-> [IndexCount |-> Len(mesh.cone.Indices32),
      StartIndexLocation |-> indexOffset.cone4,
      BaseVertexLocation |-> vertexOffset.cone4],
   cone5 |-> [IndexCount |-> Len(mesh.cone.Indices32),
      StartIndexLocation |-> indexOffset.cone5,
      BaseVertexLocation |-> vertexOffset.cone5],
   geosphere |-> [IndexCount |-> Len(mesh.geosphere.Indices32),
      StartIndexLocation |-> indexOffset.geosphere,
      BaseVertexLocation |-> vertexOffset.geosphere] ]

TotalVertexCount(mesh) ==
  Len(mesh.box.Vertices)
    + Len(mesh.grid.Vertices)
    + Len(mesh.sphere.Vertices)
    + Len(mesh.cylinder.Vertices) * 5
    + Len(mesh.hexagon.Vertices)
    + Len(mesh.tetrahedron.Vertices)
    + Len(mesh.pyramid.Vertices)
    + Len(mesh.diamond.Vertices)
    + Len(mesh.cone.Vertices) * 5
    + Len(mesh.wedge.Vertices) * 4
    + Len(mesh.quad.Vertices)
    + Len(mesh.bar.Vertices)
    + Len(mesh.boxthree.Vertices)
    + Len(mesh.boxfour.Vertices)
    + Len(mesh.boxfive.Vertices)
    + Len(mesh.boxsix.Vertices)
    + Len(mesh.geosphere.Vertices)

\* the vertices written by the copy loops, in the order of the loops, and
\* the value of the counter k when the loop of each mesh starts
ShapeVertexCopies(mesh) ==
  LET copied1 == CopyVertices(mesh.box, "Black")
      copied2 == copied1 \o CopyVertices(mesh.grid, "RosyBrown")
      copied3 == copied2 \o CopyVertices(mesh.sphere, "Crimson")
      copied4 == copied3 \o CopyVertices(mesh.cylinder, "Gold")
      copied5 == copied4 \o CopyVertices(mesh.hexagon, "Aqua")
      copied6 == copied5 \o CopyVertices(mesh.tetrahedron, "Gray")
      copied7 == copied6 \o CopyVertices(mesh.pyramid, "Pink")
      copied8 == copied7 \o CopyVertices(mesh.diamond, "Magenta")
      copied9 == copied8 \o CopyVertices(mesh.cone, "Green")
      copied10 == copied9 \o CopyVertices(mesh.wedge, "Red")
      copied11 == copied10 \o CopyVertices(mesh.quad, "Silver")
      copied12 == copied11 \o CopyVertices(mesh.bar, "Black")
      copied13 == copied12 \o CopyVertices(mesh.boxthree, "Black")
      copied14 == copied13 \o CopyVertices(mesh.boxfour, "Black")
      copied15 == copied14 \o CopyVertices(mesh.boxfive, "Black")
      copied16 == copied15 \o CopyVertices(mesh.boxsix, "Black")
      copied17 == copied16 \o CopyVertices(mesh.cylinder2, "Gold")
      copied18 == copied17 \o CopyVertices(mesh.cylinder3, "Gold")
      copied19 == copied18 \o CopyVertices(mesh.cylinder4, "Gold")
      copied20 == copied19 \o CopyVertices(mesh.cylinder5, "Gold")
      copied21 == copied20 \o CopyVertices(mesh.wedge2, "Red")
      copied22 == copied21 \o CopyVertices(mesh.wedge3, "Red")
      copied23 == copied22 \o CopyVertices(mesh.wedge4, "Red")
      copied24 == copied23 \o CopyVertices(mesh.cone2, "Green")
      copied25 == copied24 \o CopyVertices(mesh.cone3, "Green")
      copied26 == copied25 \o CopyVertices(mesh.cone4, "Green")
      copied27 == copied26 \o CopyVertices(mesh.cone5, "Green")
      copied28 == copied27 \o CopyVertices(mesh.geosphere, "Crimson")
  IN [written |-> copied28,
      before  |-> [box |-> 0,
                   grid |-> Len(copied1),
                   sphere |-> Len(copied2),
                   cylinder |-> Len(copied3),
                   hexagon |-> Len(copied4),
                   tetrahedron |-> Len(copied5),
                   pyramid |-> Len(copied6),
                   diamond |-> Len(copied7),
                   cone |-> Len(copied8),
                   wedge |-> Len(copied9),
                   quad |-> Len(copied10),
                   bar |-> Len(copied11),
                   boxthree |-> Len(copied12),
                   boxfour |-> Len(copied13),
                   boxfive |-> Len(copied14),
                   boxsix |-> Len(copied15),
                   cylinder2 |-> Len(copied16),
                   cylinder3 |-> Len(copied17),
                   cylinder4 |-> Len(copied18),
                   cylinder5 |-> Len(copied19),
                   wedge2 |-> Len(copied20),
                   wedge3 |-> Len(copied21),
                   wedge4 |-> Len(copied22),
                   cone2 |-> Len(copied23),
                   cone3 |-> Len(copied24),
                   cone4 |-> Len(copied25),
                   cone5 |-> Len(copied26),
                   geosphere |-> Len(copied27)]]

\* the indices inserted at the end of the shared index vector, in the
\* order of the inserts, and indices.size() before each insert
ShapeIndexInserts(mesh) ==
  LET inserted1 == GetIndices16(mesh.box)
      inserted2 == inserted1 \o GetIndices16(mesh.grid)
      inserted3 == inserted2 \o GetIndices16(mesh.sphere)
      inserted4 == inserted3 \o GetIndices16(mesh.cylinder)
      inserted5 == inserted4 \o GetIndices16(mesh.hexagon)
      inserted6 == inserted5 \o GetIndices16(mesh.tetrahedron)
      inserted7 == inserted6 \o GetIndices16(mesh.pyramid)
      inserted8 == inserted7 \o GetIndices16(mesh.diamond)
      inserted9 == inserted8 \o GetIndices16(mesh.cone)
      inserted10 == inserted9 \o GetIndices16(mesh.wedge)
      inserted11 == inserted10 \o GetIndices16(mesh.quad)
      inserted12 == inserted11 \o GetIndices16(mesh.bar)
      inserted13 == inserted12 \o GetIndices16(mesh.boxthree)
      inserted14 == inserted13 \o GetIndices16(mesh.boxfour)
      inserted15 == inserted14 \o GetIndices16(mesh.boxfive)
      inserted16 == inserted15 \o GetIndices16(mesh.boxsix)
      inserted17 == inserted16 \o GetIndices16(mesh.cylinder2)
      inserted18 == inserted17 \o GetIndices16(mesh.cylinder3)
      inserted19 == inserted18 \o GetIndices16(mesh.cylinder4)
      inserted20 == inserted19 \o GetIndices16(mesh.cylinder5)
      inserted21 == inserted20 \o GetIndices16(mesh.wedge2)
      inserted22 == inserted21 \o GetIndices16(mesh.wedge3)
      inserted23 == inserted22 \o GetIndices16(mesh.wedge4)
      inserted24 == inserted23 \o GetIndices16(mesh.cone2)
      inserted25 == inserted24 \o GetIndices16(mesh.cone3)
      inserted26 == inserted25 \o GetIndices16(mesh.cone4)
      inserted27 == inserted26 \o GetIndices16(mesh.cone5)
      inserted28 == inserted27 \o GetIndices16(mesh.geosphere)
  IN [indices |-> inserted28,
      before  |-> [box |-> 0,
                   grid |-> Len(inserted1),
                   sphere |-> Len(inserted2),
                   cylinder |-> Len(inserted3),
                   hexagon |-> Len(inserted4),
                   tetrahedron |-> Len(inserted5),
                   pyramid |-> Len(inserted6),
                   diamond |-> Len(inserted7),
                   cone |-> Len(inserted8),
                   wedge |-> Len(inserted9),
                   quad |-> Len(inserted10),
                   bar |-> Len(inserted11),
                   boxthree |-> Len(inserted12),
                   boxfour |-> Len(inserted13),
                   boxfive |-> Len(inserted14),
                   boxsix |-> Len(inserted15),
                   cylinder2 |-> Len(inserted16),
                   cylinder3 |-> Len(inserted17),
                   cylinder4 |-> Len(inserted18),
                   cylinder5 |-> Len(inserted19),
                   wedge2 |-> Len(inserted20),
                   wedge3 |-> Len(inserted21),
                   wedge4 |-> Len(inserted22),
                   cone2 |-> Len(inserted23),
                   cone3 |-> Len(inserted24),
                   cone4 |-> Len(inserted25),
                   cone5 |-> Len(inserted26),
                   geosphere |-> Len(inserted27)]]

ShapeArgs ==
  [numSubdivisions : 1..MaxShapeSubdiv, m : 2..MaxGrid, n : 2..MaxGrid,
   sliceCount : 1..MaxSliceCount, stackCount : 2..MaxStackCount,
   geosphereSubdivisions : 0..1]

InitShapes ==
  /\ pc = "idle"
  /\ call \in Tagged("BuildShapeGeometry", ShapeArgs)
  /\ meshData = EmptyMesh
  /\ inputCopy = EmptyMesh
  /\ passes = 0
  /\ midpoint = NoVertex
  /\ previous = NoPrevious
  /\ locals = NoLocals
  /\ app = NoApp

\* the generator calls of BuildShapeGeometry: locals keeps the meshes
BuildShapeMeshes ==
  /\ pc = "idle"
  /\ call.fn = "BuildShapeGeometry"
  /\ \E junk \in Junk : locals' = [mesh |-> ShapeMeshes(call, junk)]
  /\ pc' = "meshes"
  /\ UNCHANGED <<call, meshData, inputCopy, passes, midpoint, previous, app>>

\* the rest of BuildShapeGeometry.  std::vector<Vertex> vertices(
\* totalVertexCount) holds junk until the copy loops assign it; a copy
\* loop that runs past totalVertexCount writes out of bounds.  locals keeps
\* the value of k at the start of each copy loop and indices.size() before
\* each insert.
BuildShapeBuffers ==
  /\ pc = "meshes"
  /\ \E junkVertex \in JunkVertices :
       LET mesh == locals.mesh
           totalVertexCount == TotalVertexCount(mesh)
           copies == ShapeVertexCopies(mesh)
           inserts == ShapeIndexInserts(mesh)
           unassigned == [q \in 1..(totalVertexCount - Len(copies.written)) |->
                            [Pos |-> junkVertex.Position, Color |-> "junk"]]
       IN /\ locals' = [mesh |-> mesh, totalVertexCount |-> totalVertexCount,
                        copiedBefore |-> copies.before,
                        insertedBefore |-> inserts.before]
          /\ IF Len(copies.written) > totalVertexCount
               THEN pc' = "out_of_bounds_write" /\ app' = app
               ELSE /\ pc' = "returned"
                    /\ app' = [mGeometries |->
                                 [shapeGeo |->
                                    [vertices |-> copies.written \o unassigned,
                                     indices  |-> inserts.indices,
                                     DrawArgs |-> ShapeDrawArgs(mesh,
                                                    ShapeVertexOffsets(mesh),
                                                    ShapeIndexOffsets(mesh))]]]
  /\ UNCHANGED <<call, meshData, inputCopy, passes, midpoint, previous>>

NextShapes == BuildShapeMeshes \/ BuildShapeBuffers

SpecShapes == InitShapes /\ [][NextShapes]_vars

-----------------------------------------------------------------------------
(* The frame loop of ShapesApp.  The CPU calls Update and Draw in turn     *)
(* (D3DApp::Run); the GPU works off the command queue on its own.  app     *)
(* holds the members of the application object: the three frame resources  *)
(* with their Fence, object and pass constant buffers and command          *)
(* allocator, the render items, mCurrentFence, mFence (the value the GPU   *)
(* has completed) and mCommandQueue (what was submitted and is not yet     *)
(* completed, in order).  Frame resource k of the code is element k+1 of   *)
(* mFrameResources.  locals keeps the key state GetAsyncKeyState returned  *)
(* to the last Update, the number of Updates that returned, and what each  *)
(* Draw submitted.                                                         *)

gNumFrameResources == 3
\* Draw is called at most MaxFrames times
MaxFrames == 7
\* the scene has 1..MaxItems render items
MaxItems == 2
\* mCurrentFence is in 0..MaxFlushed when the first frame starts
MaxFlushed == 1

\* struct RenderItem with its default member initialisers; the world matrix
\* of item i is the token <<"World", i>>
RenderItem(objCBIndex) ==
  [World |-> <<"World", objCBIndex>>, NumFramesDirty |-> gNumFrameResources,
   ObjCBIndex |-> objCBIndex]

\* struct FrameResource: constant buffers with passCount and objectCount
\* elements, nothing uploaded yet, Fence 0.  An element records the data
\* last copied into it and how many copies it received.
FrameResource(passCount, objectCount) ==
  [Fence |-> 0,
   ObjectCB |-> [s \in 0..(objectCount - 1) |-> [data |-> "none", copies |-> 0]],
   PassCB |-> [s \in 0..(passCount - 1) |-> [data |-> "none", copies |-> 0]],
   CmdListAlloc |-> [resets |-> 0]]

\* UploadBuffer::CopyData(elementIndex, data)
CopyData(buffer, elementIndex, data) ==
  IF elementIndex \in DOMAIN buffer
    THEN [buffer EXCEPT ![elementIndex] = [data |-> data, copies |-> @.copies + 1]]
    ELSE buffer

\* the application after Initialize: n render items with ObjCBIndex
\* 0..n-1, one frame resource per in-flight frame, the queue flushed
InitialApp(n, flushed) ==
  [mFrameResources |-> [k \in 1..gNumFrameResources |-> FrameResource(1, n)],
   mCurrFrameResourceIndex |-> 0,
   mAllRitems |-> [e \in 1..n |-> RenderItem(e - 1)],
   mIsWireframe |-> FALSE,
   mCurrentFence |-> flushed,
   mFence |-> flushed,
   mCommandQueue |-> <<>>]

InitFrames ==
  /\ pc = "frame"
  /\ call = [fn |-> "Run"]
  /\ meshData = EmptyMesh
  /\ inputCopy = EmptyMesh
  /\ passes = 0
  /\ midpoint = NoVertex
  /\ previous = NoPrevious
  /\ locals = [keyDown |-> FALSE, updates |-> 0, drawn |-> <<>>]
  /\ app \in { InitialApp(n, flushed) : n \in 1..MaxItems, flushed \in 0..MaxFlushed }

\* OnKeyboardInput: keyDown is bit 0x8000 of GetAsyncKeyState('1')
OnKeyboardInput(keyDown) == IF keyDown THEN FALSE ELSE TRUE

\* Update: the next index of the circular frame resource array
NextFrameResourceIndexStuck(index) == index
NextFrameResourceIndex(index) == (index + 1) % gNumFrameResources

\* Update: the condition under which it waits for the GPU
MustWaitNever(frameResource, completed) == FALSE
MustWait(frameResource, completed) ==
  frameResource.Fence /= 0 /\ completed < frameResource.Fence

\* the current frame resource
CurrFrameResource == app.mFrameResources[app.mCurrFrameResourceIndex + 1]

\* Update up to the wait: OnKeyboardInput, the next frame resource, and the
\* test of its fence
UpdateEnter ==
  /\ pc = "frame"
  /\ Len(locals.drawn) < MaxFrames
  /\ \E keyDown \in BOOLEAN :
       LET index == NextFrameResourceIndex(app.mCurrFrameResourceIndex)
       IN /\ locals' = [locals EXCEPT !.keyDown = keyDown]
          /\ app' = [app EXCEPT !.mIsWireframe = OnKeyboardInput(keyDown),
                                !.mCurrFrameResourceIndex = index]
          /\ pc' = IF MustWait(app.mFrameResources[index + 1], app.mFence)
                     THEN "waiting" ELSE "update_cbs"
  /\ UNCHANGED <<call, meshData, inputCopy, passes, midpoint, previous>>

\* WaitForSingleObject returns once the fence has reached the value
UpdateWait ==
  /\ pc = "waiting"
  /\ app.mFence >= CurrFrameResource.Fence
  /\ pc' = "update_cbs"
  /\ UNCHANGED <<call, meshData, inputCopy, passes, midpoint, previous, locals, app>>

\* UpdateObjectCBs: the loop over mAllRitems from element e on
RECURSIVE UpdateObjectCBs(_, _, _)
UpdateObjectCBs(items, currObjectCB, e) ==
  IF e > Len(items)
    THEN [mAllRitems |-> items, ObjectCB |-> currObjectCB]
    ELSE IF items[e].NumFramesDirty > 0
           THEN UpdateObjectCBs(
                  [items EXCEPT ![e].NumFramesDirty = @ - 1],
                  CopyData(currObjectCB, items[e].ObjCBIndex, items[e].World),
                  e + 1)
           ELSE UpdateObjectCBs(items, currObjectCB, e + 1)

\* the rest of Update: UpdateObjectCBs and UpdateMainPassCB write the
\* constant buffers of the current frame resource
UpdateConstantBuffers ==
  /\ pc = "update_cbs"
  /\ LET k == app.mCurrFrameResourceIndex + 1
         objects == UpdateObjectCBs(app.mAllRitems, CurrFrameResource.ObjectCB, 1)
     IN app' = [app EXCEPT
                  !.mAllRitems = objects.mAllRitems,
                  !.mFrameResources[k].ObjectCB = objects.ObjectCB,
                  !.mFrameResources[k].PassCB =
                     CopyData(@, 0, <<"mMainPassCB", locals.updates>>)]
  /\ locals' = [locals EXCEPT !.updates = @ + 1]
  /\ pc' = "draw"
  /\ UNCHANGED <<call, meshData, inputCopy, passes, midpoint, previous>>

\* Draw: the value of ++mCurrentFence
NextFenceSkipping(fence) == fence + 2
NextFence(fence) == fence + 1

\* Draw: ExecuteCommandLists and Signal on the command queue
SubmittedWithoutSignal(queue, commands, fence) == Append(queue, commands)
Submitted(queue, commands, fence) ==
  Append(Append(queue, commands), [kind |-> "signal", value |-> fence])

\* Draw: the allocator of the current frame resource is reset, the command
\* list is recorded with the pipeline state mIsWireframe selects and
\* submitted, the fence value is advanced, stored in the frame resource and
\* signalled
Draw ==
  /\ pc = "draw"
  /\ LET k == app.mCurrFrameResourceIndex + 1
         pso == IF app.mIsWireframe THEN "opaque_wireframe" ELSE "opaque"
         commands == [kind |-> "commands", frame |-> app.mCurrFrameResourceIndex,
                      pso |-> pso]
         fence == NextFence(app.mCurrentFence)
     IN /\ app' = [app EXCEPT
                     !.mFrameResources[k].CmdListAlloc.resets = @ + 1,
                     !.mFrameResources[k].Fence = fence,
                     !.mCurrentFence = fence,
                     !.mCommandQueue = Submitted(@, commands, fence)]
        /\ locals' = [locals EXCEPT
                        !.drawn = Append(@, [pso |-> pso, keyDown |-> locals.keyDown,
                                             frame |-> app.mCurrFrameResourceIndex,
                                             fence |-> fence])]
  /\ pc' = "frame"
  /\ UNCHANGED <<call, meshData, inputCopy, passes, midpoint, previous>>

\* the GPU completes the oldest entry of the command queue: a command list
\* has been executed, or the fence takes the signalled value
GpuCompletes ==
  /\ app.mCommandQueue /= <<>>
  /\ LET head == Head(app.mCommandQueue)
     IN app' = [app EXCEPT
                  !.mCommandQueue = Tail(@),
                  !.mFence = IF head.kind = "signal" THEN head.value ELSE @]
  /\ UNCHANGED <<pc, call, meshData, inputCopy, passes, midpoint, previous, locals>>

NextFrames == UpdateEnter \/ UpdateWait \/ UpdateConstantBuffers \/ Draw \/ GpuCompletes

SpecFrames == InitFrames /\ [][NextFrames]_vars

\* the CPU runs its code and the GPU completes what was submitted to it
SpecFramesFair ==
  /\ SpecFrames
  /\ WF_vars(UpdateWait) /\ WF_vars(UpdateConstantBuffers) /\ WF_vars(GpuCompletes)

-----------------------------------------------------------------------------
(* The render items and their constant buffer views: BuildRenderItems,     *)
(* BuildFrameResources, BuildDescriptorHeaps and BuildConstantBufferViews  *)
(* as Initialize calls them, then DrawRenderItems for one of the frame     *)
(* resources.  BuildRenderItems runs one push_back (or one pair of the     *)
(* last loop) per step; locals holds its loop counters i, q, k, c and the  *)
(* counters j and objCBIndex.  app.mCbvHeap maps every descriptor of the   *)
(* heap to the constant buffer view created in it, and locals.cbvIndex     *)
(* lists the descriptor DrawRenderItems binds for each item.               *)

\* a render item of BuildRenderItems: the submesh it draws and its
\* ObjCBIndex; place stands for its world matrix
SceneItem(submesh, objCBIndex, place) ==
  [World |-> place, NumFramesDirty |-> gNumFrameResources,
   ObjCBIndex |-> objCBIndex, Geo |-> "shapeGeo", submesh |-> submesh]

InitItems ==
  /\ pc = "idle"
  /\ call = [fn |-> "Initialize"]
  /\ meshData = EmptyMesh
  /\ inputCopy = EmptyMesh
  /\ passes = 0
  /\ midpoint = NoVertex
  /\ previous = NoPrevious
  /\ locals = NoLocals
  /\ app = [mAllRitems |-> <<>>, mOpaqueRitems |-> <<>>, mFrameResources |-> <<>>,
            mPassCbvOffset |-> 0, mCbvHeap |-> <<>>, mCurrFrameResourceIndex |-> 0]

\* BuildRenderItems up to the first loop
BuildRenderItemsEnter ==
  /\ pc = "idle"
  /\ call.fn = "Initialize"
  /\ locals' = [j |-> 0, i |-> 1, q |-> 0, k |-> 0]
  /\ pc' = "box_loop"
  /\ UNCHANGED <<call, meshData, inputCopy, passes, midpoint, previous, app>>

\* the body of the loop over k: one box
PushBoxItem ==
  /\ pc = "box_loop"
  /\ locals.i < 11 /\ locals.q < 2 /\ locals.k < 5
  /\ app' = [app EXCEPT !.mAllRitems =
               Append(@, SceneItem("box", locals.j, <<locals.i, locals.q, locals.k>>))]
  /\ locals' = IF locals.k + 1 < 5
                 THEN [locals EXCEPT !.j = @ + 1, !.k = @ + 1]
                 ELSE [locals EXCEPT !.j = @ + 1, !.k = 0, !.q = @ + 1]
  /\ UNCHANGED <<pc, call, meshData, inputCopy, passes, midpoint, previous>>

\* the end of the body of the loop over i: one bar
PushBarItem ==
  /\ pc = "box_loop"
  /\ locals.i < 11 /\ locals.q = 2
  /\ app' = [app EXCEPT !.mAllRitems =
               Append(@, SceneItem("bar", locals.j, <<locals.i>>))]
  /\ locals' = [locals EXCEPT !.j = @ + 1, !.i = @ + 1, !.q = 0, !.k = 0]
  /\ UNCHANGED <<pc, call, meshData, inputCopy, passes, midpoint, previous>>

\* UINT objCBIndex = j
StartHexagonLoop ==
  /\ pc = "box_loop"
  /\ locals.i = 11
  /\ locals' = [j |-> locals.j, objCBIndex |-> locals.j, c |-> 0]
  /\ pc' = "hexagon_loop"
  /\ UNCHANGED <<call, meshData, inputCopy, passes, midpoint, previous, app>>

\* the two items of one iteration of the last loop
HexagonItemsSharingIndex(c, objCBIndex) ==
  << SceneItem("hexagon", objCBIndex, <<"bottom", c>>),
     SceneItem("hexagon", objCBIndex, <<"top", c>>) >>
HexagonItems(c, objCBIndex) ==
  << SceneItem("hexagon", objCBIndex, <<"bottom", c>>),
     SceneItem("hexagon", objCBIndex + 1, <<"top", c>>) >>

PushHexagonItems ==
  /\ pc = "hexagon_loop"
  /\ locals.c < 10
  /\ app' = [app EXCEPT !.mAllRitems = @ \o HexagonItems(locals.c, locals.objCBIndex)]
  /\ locals' = [locals EXCEPT !.objCBIndex = @ + 2, !.c = @ + 1]
  /\ UNCHANGED <<pc, call, meshData, inputCopy, passes, midpoint, previous>>

\* the end of BuildRenderItems: all the render items are opaque.
\* mOpaqueRitems holds pointers, here positions in mAllRitems
CollectOpaqueItems ==
  /\ pc = "hexagon_loop"
  /\ locals.c = 10
  /\ app' = [app EXCEPT !.mOpaqueRitems = [e \in 1..Len(app.mAllRitems) |-> e]]
  /\ locals' = NoLocals
  /\ pc' = "items"
  /\ UNCHANGED <<call, meshData, inputCopy, passes, midpoint, previous>>

BuildFrameResources ==
  /\ pc = "items"
  /\ app' = [app EXCEPT !.mFrameResources =
               [f \in 1..gNumFrameResources |-> FrameResource(1, Len(app.mAllRitems))]]
  /\ pc' = "frame_resources"
  /\ UNCHANGED <<call, meshData, inputCopy, passes, midpoint, previous, locals>>

\* a descriptor in which no view has been created
NoView == [buffer |-> "none", frame |-> 0, element |-> 0]

\* a heap of numDescriptors descriptors, no view created in it yet
BuildDescriptorHeaps ==
  /\ pc = "frame_resources"
  /\ LET objCount == Len(app.mOpaqueRitems)
         numDescriptors == (objCount + 1) * gNumFrameResources
     IN app' = [app EXCEPT !.mPassCbvOffset = objCount * gNumFrameResources,
                           !.mCbvHeap = [d \in 0..(numDescriptors - 1) |-> NoView]]
  /\ pc' = "heap"
  /\ UNCHANGED <<call, meshData, inputCopy, passes, midpoint, previous, locals>>

\* the view BuildConstantBufferViews creates at heapIndex, if any: descriptor
\* frameIndex*objCount + i views element i of the object constant buffer of
\* frame resource frameIndex, descriptor mPassCbvOffset + frameIndex the
\* pass constant buffer of frame resource frameIndex (a later
\* CreateConstantBufferView on the same descriptor replaces the earlier)
ViewCreatedAt(heapIndex, objCount, passCbvOffset) ==
  IF \E frameIndex \in 0..(gNumFrameResources - 1) :
       heapIndex = passCbvOffset + frameIndex
    THEN [buffer |-> "PassCB", frame |-> heapIndex - passCbvOffset, element |-> 0]
    ELSE IF \E frameIndex \in 0..(gNumFrameResources - 1) :
              \E i \in 0..(objCount - 1) : heapIndex = frameIndex * objCount + i
           THEN [buffer |-> "ObjectCB", frame |-> heapIndex \div objCount,
                 element |-> heapIndex % objCount]
           ELSE NoView

BuildConstantBufferViews ==
  /\ pc = "heap"
  /\ app' = [app EXCEPT !.mCbvHeap =
               [d \in DOMAIN app.mCbvHeap |->
                  ViewCreatedAt(d, Len(app.mOpaqueRitems), app.mPassCbvOffset)]]
  /\ pc' = "initialized"
  /\ UNCHANGED <<call, meshData, inputCopy, passes, midpoint, previous, locals>>

\* DrawRenderItems with mCurrFrameResourceIndex as Update left it, and the
\* pass descriptor of Draw
DrawRenderItems ==
  /\ pc = "initialized"
  /\ \E frame \in 0..(gNumFrameResources - 1) :
       /\ app' = [app EXCEPT !.mCurrFrameResourceIndex = frame]
       /\ locals' =
            [passCbvIndex |-> app.mPassCbvOffset + frame,
             cbvIndex |->
               [e \in 1..Len(app.mOpaqueRitems) |->
                  frame * Len(app.mOpaqueRitems)
                    + app.mAllRitems[app.mOpaqueRitems[e]].ObjCBIndex]]
  /\ pc' = "drawn"
  /\ UNCHANGED <<call, meshData, inputCopy, passes, midpoint, previous>>

NextItems ==
  \/ BuildRenderItemsEnter \/ PushBoxItem \/ PushBarItem \/ StartHexagonLoop
  \/ PushHexagonItems \/ CollectOpaqueItems \/ BuildFrameResources
  \/ BuildDescriptorHeaps \/ BuildConstantBufferViews \/ DrawRenderItems

SpecItems == InitItems /\ [][NextItems]_vars

-----------------------------------------------------------------------------
(* The camera under mouse events: OnMouseDown, OnMouseUp and OnMouseMove   *)
(* in any order.  Angles are integers in units of 1/Rad radian, mRadius in *)
(* units of 1/Unit.  btnState is the wParam of the message: bit 1 is       *)
(* MK_LBUTTON, bit 2 MK_RBUTTON.  mLastMousePos has no initialiser: it     *)
(* starts with any content.  locals keeps the number of events so far, the *)
(* last event and the members as they were before it.                      *)

\* an application handles at most MaxEvents mouse events
MaxEvents == 3
\* the mouse is at x in {0, 1, MaxPixel}, y in {-MaxPixel, 0, MaxPixel}
MaxPixel == 3000

Rad == 10 ^ 6
Unit == 10 ^ 2
Pi == 3141593

\* XMConvertToRadians(0.25f * pixels): a quarter of a degree per pixel
QuarterDegrees(pixels) == pixels * RoundDiv(Pi, 4 * 180)

\* MathHelper::Clamp
ClampLowOnly(x, low, high) == IF x < low THEN low ELSE x
Clamp(x, low, high) == IF x < low THEN low ELSE IF x > high THEN high ELSE x

MK_LBUTTON(btnState) == btnState % 2 = 1
MK_RBUTTON(btnState) == (btnState \div 2) % 2 = 1

MousePositions == { [x |-> x, y |-> y] : x \in {0, 1, MaxPixel}, y \in {-MaxPixel, 0, MaxPixel} }

InitMouse ==
  /\ pc = "idle"
  /\ call = [fn |-> "MsgProc"]
  /\ meshData = EmptyMesh
  /\ inputCopy = EmptyMesh
  /\ passes = 0
  /\ midpoint = NoVertex
  /\ previous = NoPrevious
  /\ \E junk \in MousePositions \cup {[x |-> -12345, y |-> 54321]} :
       app = [mTheta |-> (3 * Pi) \div 2, mPhi |-> Pi \div 5, mRadius |-> 15 * Unit,
              mLastMousePos |-> junk]
  /\ locals = [events |-> 0, last |-> [event |-> "none"]]

\* what an event handler leaves in locals
Handled(event, btnState, x, y) ==
  [events |-> locals.events + 1,
   last |-> [event |-> event, btnState |-> btnState, x |-> x, y |-> y, before |-> app]]

OnMouseDown ==
  /\ locals.events < MaxEvents
  /\ \E btnState \in 0..3, pos \in MousePositions :
       /\ app' = [app EXCEPT !.mLastMousePos = [x |-> pos.x, y |-> pos.y]]
       /\ locals' = Handled("OnMouseDown", btnState, pos.x, pos.y)
  /\ UNCHANGED <<pc, call, meshData, inputCopy, passes, midpoint, previous>>

OnMouseUp ==
  /\ locals.events < MaxEvents
  /\ \E btnState \in 0..3, pos \in MousePositions :
       locals' = Handled("OnMouseUp", btnState, pos.x, pos.y)
  /\ UNCHANGED <<pc, call, meshData, inputCopy, passes, midpoint, previous, app>>

\* the members after OnMouseMove(btnState, x, y) with "if" in place of
\* "else if" for the right button
MouseMovedBothBranches(members, btnState, x, y) ==
  LET dx == x - members.mLastMousePos.x
      dy == y - members.mLastMousePos.y
      orbit == IF MK_LBUTTON(btnState)
                 THEN [members EXCEPT
                         !.mTheta = @ + QuarterDegrees(dx),
                         !.mPhi = Clamp(@ + QuarterDegrees(dy), Rad \div 10,
                                        Pi - Rad \div 10)]
                 ELSE members
      zoom == IF MK_RBUTTON(btnState)
                THEN [orbit EXCEPT
                        !.mRadius = Clamp(@ + (dx * Unit) \div 20 - (dy * Unit) \div 20,
                                          5 * Unit, 150 * Unit)]
                ELSE orbit
  IN [zoom EXCEPT !.mLastMousePos = [x |-> x, y |-> y]]

\* the members after OnMouseMove(btnState, x, y)
MouseMoved(members, btnState, x, y) ==
  LET dx == x - members.mLastMousePos.x
      dy == y - members.mLastMousePos.y
      camera ==
        IF MK_LBUTTON(btnState)
          THEN [members EXCEPT
                  !.mTheta = @ + QuarterDegrees(dx),
                  !.mPhi = Clamp(@ + QuarterDegrees(dy), Rad \div 10,
                                 Pi - Rad \div 10)]
          ELSE IF MK_RBUTTON(btnState)
                 THEN [members EXCEPT
                         !.mRadius = Clamp(@ + (dx * Unit) \div 20 - (dy * Unit) \div 20,
                                           5 * Unit, 150 * Unit)]
                 ELSE members
  IN [camera EXCEPT !.mLastMousePos = [x |-> x, y |-> y]]

OnMouseMove ==
  /\ locals.events < MaxEvents
  /\ \E btnState \in 0..3, pos \in MousePositions :
       /\ app' = MouseMoved(app, btnState, pos.x, pos.y)
       /\ locals' = Handled("OnMouseMove", btnState, pos.x, pos.y)
  /\ UNCHANGED <<pc, call, meshData, inputCopy, passes, midpoint, previous>>

NextMouse == OnMouseDown \/ OnMouseUp \/ OnMouseMove

SpecMouse == InitMouse /\ [][NextMouse]_vars

-----------------------------------------------------------------------------
(* The layout of the sphere's vertices *)

\* C11: a sphere returned for sliceCount >= 1 and stackCount >= 2 has exactly
\* 2 + (stackCount-1)*(sliceCount+1) vertices: the top pole (0, +radius, 0)
\* in slot 0, the bottom pole (0, -radius, 0) in the last slot, and ring r
\* (r = 1 .. stackCount-1) in the slots 1+(r-1)*(sliceCount+1) ..
\* r*(sliceCount+1), its vertex j carrying the texture coordinates
\* (j/sliceCount, r/stackCount)
SphereVertexLayout ==
  (pc = "returned" /\ call.fn = "CreateSphere"
     /\ call.sliceCount >= 1 /\ call.stackCount >= 2) =>
    LET v == meshData.Vertices
        ringVertexCount == call.sliceCount + 1
    IN /\ Len(v) = 2 + (call.stackCount - 1) * ringVertexCount
       /\ v[1].Position = <<0, call.radius, 0>>
       /\ v[Len(v)].Position = <<0, -call.radius, 0>>
       /\ \A r \in 1..(call.stackCount - 1) : \A j \in 0..call.sliceCount :
            LET slot == 1 + (r - 1) * ringVertexCount + j
            IN /\ slot >= 1 + (r - 1) * ringVertexCount
               /\ slot <= r * ringVertexCount
               /\ v[slot + 1].TexC = <<Fixed(j, call.sliceCount),
                                       Fixed(r, call.stackCount)>>

\* a sphere of several rings has been returned
SphereWithTwoRingsReturned ==
  /\ pc = "returned" /\ call.fn = "CreateSphere"
  /\ call.stackCount = 3 /\ call.sliceCount >= 2
  /\ Len(meshData.Vertices) = 2 + 2 * (call.sliceCount + 1)

-----------------------------------------------------------------------------
(* The indices of the sphere *)

\* C12: a sphere returned for sliceCount >= 1 and stackCount >= 2 has exactly
\* 6*sliceCount*(stackCount-1) indices, all below the vertex count: first
\* sliceCount fan triangles (0, i+1, i) joining the top pole to the first
\* ring, then for each pair of adjacent rings and each slice the two
\* triangles of the quad between them, then sliceCount fan triangles joining
\* the bottom pole (the last vertex) to the last ring.  For stackCount = 1
\* the two poles are the only vertices and the top fan refers to the slots
\* 2 .. sliceCount+1, which do not exist.
SphereIndexLayout ==
  LET v == meshData.Vertices
      ix == meshData.Indices32
      sliceCount == call.sliceCount
      stackCount == call.stackCount
      ringVertexCount == sliceCount + 1
      \* slot 0-based of vertex j of ring r (r = 1 .. stackCount-1)
      RingSlot(r, j) == 1 + (r - 1) * ringVertexCount + j
      Triangle(t) == <<ix[3 * t + 1], ix[3 * t + 2], ix[3 * t + 3]>>
      last == Len(v) - 1
  IN sliceCount >= 1 =>
       /\ (pc = "returned" /\ stackCount >= 2) =>
            /\ Len(ix) = 6 * sliceCount * (stackCount - 1)
            /\ IndicesInBounds(meshData)
            /\ \A i \in 1..sliceCount :
                 Triangle(i - 1) = <<0, RingSlot(1, i), RingSlot(1, i - 1)>>
            /\ \A r \in 1..(stackCount - 2) : \A j \in 0..(sliceCount - 1) :
                 LET t == sliceCount + 2 * ((r - 1) * sliceCount + j)
                 IN /\ Triangle(t) = <<RingSlot(r, j), RingSlot(r, j + 1),
                                       RingSlot(r + 1, j)>>
                    /\ Triangle(t + 1) = <<RingSlot(r + 1, j), RingSlot(r, j + 1),
                                           RingSlot(r + 1, j + 1)>>
            /\ \A i \in 0..(sliceCount - 1) :
                 Triangle(sliceCount + 2 * sliceCount * (stackCount - 2) + i)
                   = <<last, RingSlot(stackCount - 1, i),
                       RingSlot(stackCount - 1, i + 1)>>
       /\ (pc = "stacks" /\ stackCount = 1) =>
            /\ Len(v) = 2
            /\ \A i \in 1..sliceCount :
                 /\ Triangle(i - 1) = <<0, i + 1, i>>
                 /\ i + 1 >= Len(v)

\* a sphere with two inner rings and a quad strip between them is returned
SphereWithInnerStackReturned ==
  /\ pc = "returned" /\ call.fn = "CreateSphere"
  /\ call.stackCount = 3 /\ call.sliceCount = 2
  /\ Len(meshData.Indices32) = 24

\* C19: every call of CreateSphere, whatever its slice and stack counts
\* (zero included), runs to its return statement and returns a mesh: no
\* call is ended by a loop that pushes elements until memory runs out
SphereAlwaysReturns ==
  call.fn = "CreateSphere" => pc \in {"idle", "rings", "stacks", "returned"}

\* a call with stackCount = 0 has ended in std::bad_alloc
SphereAllocationFailed ==
  /\ pc = "bad_alloc" /\ call.fn = "CreateSphere" /\ call.stackCount = 0

\* for valid counts the steps build the mesh of the whole-call CreateSphere
SphereStepsAgree ==
  (pc = "returned" /\ call.sliceCount >= 1 /\ call.stackCount >= 2) =>
    meshData = CreateSphere(call.radius, call.sliceCount, call.stackCount).meshData

-----------------------------------------------------------------------------
(* The caps of the cylinder *)

\* C13: a call of BuildCylinderTopCap or BuildCylinderBottomCap leaves the
\* vertices and indices already in the mesh unchanged, appends sliceCount+1
\* ring vertices (off the axis, at the height of the cap) and then one
\* centre vertex (on the axis), and appends sliceCount triangles, each made
\* of the new centre and two consecutive new ring vertices, so that every
\* appended index refers to an appended vertex.  Hence a cylinder has
\* (stackCount+1)*(sliceCount+1) + 2*(sliceCount+2) vertices and
\* 6*stackCount*sliceCount + 6*sliceCount indices.
CapAppends ==
  /\ pc = "cap_done" =>
       LET old == inputCopy
           new == meshData
           baseIndex == Len(old.Vertices)
           oldIndexCount == Len(old.Indices32)
           sliceCount == call.sliceCount
           centerIndex == baseIndex + sliceCount + 1
           y == IF call.fn = "BuildCylinderTopCap"
                  THEN Half(call.height) ELSE -Half(call.height)
       IN /\ Len(new.Vertices) = baseIndex + sliceCount + 2
          /\ SubSeq(new.Vertices, 1, baseIndex) = old.Vertices
          /\ Len(new.Indices32) = oldIndexCount + 3 * sliceCount
          /\ SubSeq(new.Indices32, 1, oldIndexCount) = old.Indices32
          /\ \A i \in 0..sliceCount :
               LET p == new.Vertices[baseIndex + i + 1].Position
               IN p[2] = y /\ <<p[1], p[3]>> /= <<0, 0>>
          /\ new.Vertices[centerIndex + 1].Position = <<0, y, 0>>
          /\ \A i \in 0..(sliceCount - 1) :
               LET q == oldIndexCount + 3 * i
               IN /\ new.Indices32[q + 1] = centerIndex
                  /\ {new.Indices32[q + 2], new.Indices32[q + 3]}
                       = {baseIndex + i, baseIndex + i + 1}
          /\ \A q \in (oldIndexCount + 1)..Len(new.Indices32) :
               new.Indices32[q] \in baseIndex..centerIndex
  /\ (pc = "returned" /\ call.fn = "CreateCylinder") =>
       /\ Len(meshData.Vertices)
            = (call.stackCount + 1) * (call.sliceCount + 1) + 2 * (call.sliceCount + 2)
       /\ Len(meshData.Indices32)
            = 6 * call.stackCount * call.sliceCount + 6 * call.sliceCount

\* a top cap of three slices has been appended to the side of a cylinder
TopCapAppendedToSide ==
  /\ pc = "cap_done" /\ call.fn = "BuildCylinderTopCap"
  /\ call.sliceCount = 3
  /\ Len(inputCopy.Vertices) = (call.stackCount + 1) * 4
  /\ Len(meshData.Vertices) = Len(inputCopy.Vertices) + 5

\* turning sense of triangle t (0-based, counted in the index list of m)
\* about the y axis: the y component of (p1 - p0) x (p2 - p0), positive
\* when the triangle turns about +y in the sense of the top cap
TurnAboutY(m, t) ==
  LET p0 == m.Vertices[m.Indices32[3 * t + 1] + 1].Position
      p1 == m.Vertices[m.Indices32[3 * t + 2] + 1].Position
      p2 == m.Vertices[m.Indices32[3 * t + 3] + 1].Position
  IN Cross(Sub3(p1, p0), Sub3(p2, p0))[2]

\* C14: the top cap emits (center, base+i+1, base+i) and the bottom cap
\* (center, base+i, base+i+1): opposite orders.  The top cap's normal is
\* (0,1,0) and the bottom cap's (0,-1,0), so every cap triangle turns in
\* the same sense about its own normal (strictly, once sliceCount >= 3
\* makes the triangles proper).
CapWinding ==
  pc = "cap_done" =>
    LET baseIndex == Len(inputCopy.Vertices)
        oldTriangles == Len(inputCopy.Indices32) \div 3
        sliceCount == call.sliceCount
        centerIndex == baseIndex + sliceCount + 1
        normal == meshData.Vertices[centerIndex + 1].Normal
        top == call.fn = "BuildCylinderTopCap"
    IN /\ normal = IF top THEN <<0, NormOne, 0>> ELSE <<0, -NormOne, 0>>
       /\ \A i \in 0..(sliceCount - 1) :
            LET q == 3 * (oldTriangles + i)
                triangle == <<meshData.Indices32[q + 1], meshData.Indices32[q + 2],
                              meshData.Indices32[q + 3]>>
                sense == TurnAboutY(meshData, oldTriangles + i) * (normal[2] \div NormOne)
            IN /\ triangle = IF top
                               THEN <<centerIndex, baseIndex + i + 1, baseIndex + i>>
                               ELSE <<centerIndex, baseIndex + i, baseIndex + i + 1>>
               /\ sense >= 0
               /\ sliceCount >= 3 => sense > 0

\* a bottom cap of proper triangles has been appended
BottomCapOfThreeSlices ==
  /\ pc = "cap_done" /\ call.fn = "BuildCylinderBottomCap"
  /\ call.sliceCount = 3
  /\ TurnAboutY(meshData, Len(inputCopy.Indices32) \div 3) < 0

-----------------------------------------------------------------------------
(* The cone *)

\* C15: for sliceCount, stackCount >= 1 a cone is the side of the cylinder
\* of top radius 0 (same ring vertices, same side indices) followed by the
\* bottom cap only: (stackCount+1)*(sliceCount+1) + (sliceCount+2) vertices,
\* 6*stackCount*sliceCount + 3*sliceCount indices, every index below the
\* vertex count.  The ring i = stackCount has the radius
\* bottomRadius + stackCount*radiusStep, which is 0 up to the rounding of
\* radiusStep = (0 - bottomRadius)/stackCount (at most half a unit per
\* stack), and exactly 0 when the division is exact.
ConeLayout ==
  (pc = "returned" /\ call.fn = "CreateCone"
     /\ call.sliceCount >= 1 /\ call.stackCount >= 1) =>
    LET sliceCount == call.sliceCount
        stackCount == call.stackCount
        sideVertexCount == (stackCount + 1) * (sliceCount + 1)
        sideIndexCount == 6 * stackCount * sliceCount
        cylinder == CreateCylinder(call.bottomRadius, 0, call.height,
                                   sliceCount, stackCount).meshData
        side == [Vertices  |-> SubSeq(meshData.Vertices, 1, sideVertexCount),
                 Indices32 |-> SubSeq(meshData.Indices32, 1, sideIndexCount)]
        \* vertex j of the ring i = stackCount
        Apex(j) == meshData.Vertices[stackCount * (sliceCount + 1) + j + 1].Position
    IN /\ Len(meshData.Vertices) = sideVertexCount + (sliceCount + 2)
       /\ Len(meshData.Indices32) = sideIndexCount + 3 * sliceCount
       /\ IndicesInBounds(meshData)
       /\ side.Vertices = SubSeq(cylinder.Vertices, 1, sideVertexCount)
       /\ side.Indices32 = SubSeq(cylinder.Indices32, 1, sideIndexCount)
       /\ meshData = BuildCylinderBottomCap(call.bottomRadius, 0, call.height,
                                            sliceCount, stackCount, side)
       /\ \A j \in 0..sliceCount :
            /\ 2 * Abs(Apex(j)[1]) <= stackCount
            /\ 2 * Abs(Apex(j)[3]) <= stackCount
            /\ call.bottomRadius % stackCount = 0 =>
                 (Apex(j)[1] = 0 /\ Apex(j)[3] = 0)

\* a cone of several stacks whose radius step is not exact has been returned
ConeOfThreeStacksReturned ==
  /\ pc = "returned" /\ call.fn = "CreateCone"
  /\ call.stackCount = 3 /\ call.sliceCount = 3
  /\ call.bottomRadius % 3 /= 0
  /\ Len(meshData.Vertices) = 21

-----------------------------------------------------------------------------
(* The geosphere *)

RECURSIVE Power4(_)
Power4(e) == IF e = 0 THEN 1 ELSE 4 * Power4(e - 1)

\* C16: a geosphere requested with numSubdivisions = n is returned with
\* 20 * 4^min(n,6) triangles whose indices are all below the vertex count;
\* with n = 0 it has exactly 12 vertices and 60 indices, every index is
\* below 12 and each of the 12 vertices is referenced.  The projection
\* loop changes no index and not the number of vertices.
GeosphereCounts ==
  (pc = "returned" /\ call.fn = "CreateGeosphere") =>
    /\ passes = Min(call.numSubdivisions, 6)
    /\ Len(meshData.Indices32) = 3 * 20 * Power4(Min(call.numSubdivisions, 6))
    /\ IndicesInBounds(meshData)
    /\ call.numSubdivisions = 0 =>
         /\ Len(meshData.Vertices) = 12
         /\ Len(meshData.Indices32) = 60
         /\ { meshData.Indices32[q] : q \in 1..60 } = 0..11
    /\ meshData.Indices32 = inputCopy.Indices32
    /\ Len(meshData.Vertices) = Len(inputCopy.Vertices)

\* the unsubdivided icosahedron has been projected and returned
GeosphereIcosahedronReturned ==
  /\ pc = "returned" /\ call.fn = "CreateGeosphere"
  /\ call.numSubdivisions = 0
  /\ Len(inputCopy.Vertices) = 12
  /\ meshData.Vertices /= inputCopy.Vertices

\* where the whole-call CreateGeosphere is explored it agrees with the steps
GeosphereStepsAgree ==
  (pc = "returned" /\ call.numSubdivisions <= 3) =>
    \E junkVertex \in JunkVertices :
      meshData = CreateGeosphere(call.radius, call.numSubdivisions,
                                 [vertex |-> junkVertex, index |-> 0]).meshData

-----------------------------------------------------------------------------
(* The grid *)

\* C17: for m >= 2 and n >= 2 the returned grid has m*n vertices, vertex
\* (i, j) in slot i*n+j, and 6*(m-1)*(n-1) indices; the quad (i, j) holds,
\* in the six slots from 6*(i*(n-1)+j), the triangles
\* (i*n+j, i*n+j+1, (i+1)*n+j) and ((i+1)*n+j, i*n+j+1, (i+1)*n+j+1);
\* every index slot has been assigned exactly once, and every index is
\* below m*n.
GridLayout ==
  (pc = "returned" /\ call.fn = "CreateGrid" /\ call.m >= 2 /\ call.n >= 2) =>
    LET m == call.m
        n == call.n
        v == meshData.Vertices
        ix == meshData.Indices32
    IN /\ Len(v) = m * n
       /\ Len(ix) = 6 * (m - 1) * (n - 1)
       /\ \A i \in 0..(m - 1) : \A j \in 0..(n - 1) :
            /\ v[i * n + j + 1].Position
                 = <<-Half(call.width) + j * RoundDiv(call.width, n - 1), 0,
                     Half(call.depth) - i * RoundDiv(call.depth, m - 1)>>
            /\ v[i * n + j + 1].TexC
                 = <<j * RoundDiv(One, n - 1), i * RoundDiv(One, m - 1)>>
       /\ \A i \in 0..(m - 2) : \A j \in 0..(n - 2) :
            LET q == 6 * (i * (n - 1) + j)
            IN SubSeq(ix, q + 1, q + 6)
                 = <<i * n + j, i * n + j + 1, (i + 1) * n + j,
                     (i + 1) * n + j, i * n + j + 1, (i + 1) * n + j + 1>>
       /\ locals.written = [q \in 1..Len(ix) |-> q - 1]
       /\ IndicesInBounds(meshData)

\* a grid of several rows and columns of quads has been returned
GridOfFourQuadsReturned ==
  /\ pc = "returned" /\ call.fn = "CreateGrid"
  /\ call.m = 3 /\ call.n = 3
  /\ Len(locals.written) = 24

\* for m, n >= 2 the steps build the mesh of the whole-call CreateGrid
GridStepsAgree ==
  (pc = "returned" /\ call.m >= 2 /\ call.n >= 2) =>
    \E junkVertex \in JunkVertices :
      meshData = CreateGrid(call.width, call.depth, call.m, call.n,
                            [vertex |-> junkVertex, index |-> 0]).meshData

-----------------------------------------------------------------------------
(* The submeshes of the shared buffers *)

\* C18: after BuildShapeGeometry, for every name of DrawArgs:
\* BaseVertexLocation is the number of vertices copied before the vertices
\* of that mesh, StartIndexLocation the number of indices inserted before
\* its indices and IndexCount its index count; totalVertexCount is the
\* number of vertices copied (no copy loop writes past the array and none
\* of it is left unassigned); the vertex ranges and the index ranges of
\* two different names are disjoint and each range starts where another
\* ends or at 0; and every index of a mesh that is below the mesh's vertex
\* count, added to BaseVertexLocation, addresses the copy of that very
\* vertex inside the range of the mesh.
SubmeshOffsets ==
  call.fn = "BuildShapeGeometry" =>
    /\ pc /= "out_of_bounds_write"
    /\ pc = "returned" =>
         LET geo == app.mGeometries.shapeGeo
             names == DOMAIN geo.DrawArgs
             mesh == locals.mesh
             Base(s) == geo.DrawArgs[s].BaseVertexLocation
             Start(s) == geo.DrawArgs[s].StartIndexLocation
             VertexEnd(s) == Base(s) + Len(mesh[s].Vertices)
             IndexEnd(s) == Start(s) + geo.DrawArgs[s].IndexCount
         IN /\ names = DOMAIN mesh
            /\ \A s \in names :
                 /\ Base(s) = locals.copiedBefore[s]
                 /\ Start(s) = locals.insertedBefore[s]
                 /\ geo.DrawArgs[s].IndexCount = Len(mesh[s].Indices32)
                 /\ Base(s) = 0 \/ \E t \in names : VertexEnd(t) = Base(s)
                 /\ Start(s) = 0 \/ \E t \in names : IndexEnd(t) = Start(s)
                 /\ \A t \in names \ {s} :
                      /\ VertexEnd(s) <= Base(t) \/ VertexEnd(t) <= Base(s)
                      /\ IndexEnd(s) <= Start(t) \/ IndexEnd(t) <= Start(s)
                 /\ \A q \in 1..geo.DrawArgs[s].IndexCount :
                      LET index == geo.indices[Start(s) + q]
                      IN index < Len(mesh[s].Vertices) =>
                           /\ Base(s) + index < VertexEnd(s)
                           /\ geo.vertices[Base(s) + index + 1].Pos
                                = mesh[s].Vertices[index + 1].Position
            /\ locals.totalVertexCount = Len(geo.vertices)
            /\ \A s \in names : VertexEnd(s) <= locals.totalVertexCount
            /\ \E s \in names : VertexEnd(s) = locals.totalVertexCount
            /\ \A s \in names : IndexEnd(s) <= Len(geo.indices)
            /\ \A q \in 1..Len(geo.vertices) : geo.vertices[q].Color /= "junk"

\* the buffers have been built from meshes of different sizes
ShapeGeometryBuilt ==
  /\ pc = "returned" /\ call.fn = "BuildShapeGeometry"
  /\ Len(app.mGeometries.shapeGeo.vertices) = locals.totalVertexCount
  /\ app.mGeometries.shapeGeo.DrawArgs["geosphere"].BaseVertexLocation
       > app.mGeometries.shapeGeo.DrawArgs["cone5"].BaseVertexLocation

-----------------------------------------------------------------------------
(* Scaling of the polyhedron generators *)

Polyhedra == BoxLike \ {"CreateBox"}

\* a second content of the unassigned memory, different from AnyJunk
OtherJunk == CHOOSE j \in Junk : j.vertex /= AnyJunk.vertex /\ j.index /= AnyJunk.index

\* the slots of the vertex and index arrays of call c that the generator
\* assigns: their content does not depend on what the array held before
AssignedVertices(c) ==
  LET one == BaseTables(c, AnyJunk).Vertices
      other == BaseTables(c, OtherJunk).Vertices
  IN { q \in 1..Len(one) : one[q] = other[q] }
AssignedIndices(c) ==
  LET one == BaseTables(c, AnyJunk).Indices32
      other == BaseTables(c, OtherJunk).Indices32
  IN { q \in 1..Len(one) : one[q] = other[q] }

Extents == <<"width", "height", "depth">>

\* the mesh returned for call c is the mesh of the call with extent a
\* (1 = width, 2 = height, 3 = depth) set to one unit, with coordinate a
\* of every assigned vertex multiplied by the extent and nothing else
\* changed
ScaledAlong(c, mesh, a) ==
  LET unit == BaseTables([c EXCEPT ![Extents[a]] = One], AnyJunk)
      k == c[Extents[a]] \div One
      assignedVertices == AssignedVertices(c)
      assignedIndices == AssignedIndices(c)
  IN /\ Len(mesh.Vertices) = Len(unit.Vertices)
     /\ Len(mesh.Indices32) = Len(unit.Indices32)
     /\ \A q \in assignedIndices : mesh.Indices32[q] = unit.Indices32[q]
     /\ \A q \in assignedVertices :
          mesh.Vertices[q]
            = [unit.Vertices[q] EXCEPT !.Position[a] = k * @]

\* C20: a returned, unsubdivided mesh of a polyhedron generator has the
\* topology of the call with unit extents, and each of width, height and
\* depth multiplies one coordinate (x, y, z) of every assigned vertex and
\* changes nothing else.
PolyhedraLinearlyScaled ==
  (pc = "returned" /\ call.fn \in Polyhedra /\ passes = 0) =>
    \A a \in 1..3 : ScaledAlong(call, meshData, a)

\* a hexagon of width 2 has been returned: the x coordinate of its bottom
\* vertex v[8] is not twice that of the hexagon of width 1
HexagonOfDoubleWidthReturned ==
  /\ pc = "returned" /\ call.fn = "CreateHexagon" /\ passes = 0
  /\ call.width = 2 * One /\ call.height = One /\ call.depth = One
  /\ meshData.Vertices[9].Position[1]
       /= 2 * HexagonVertices(One, One, One, AnyJunk.vertex)[9].Position[1]

-----------------------------------------------------------------------------
(* The frame loop (SpecFrames) *)

\* C21: every frame is drawn with the wireframe pipeline state exactly when
\* the '1' key was down during that frame's Update, and with the opaque
\* pipeline state otherwise.
WireframeWhileKeyHeld ==
  \A f \in 1..Len(locals.drawn) :
    (locals.drawn[f].pso = "opaque_wireframe") <=> locals.drawn[f].keyDown

\* a frame has been drawn solid although the key was down in its Update
SolidDrawnWhileKeyHeld ==
  /\ pc = "frame"
  /\ locals.drawn /= <<>>
  /\ locals.drawn[Len(locals.drawn)].keyDown
  /\ locals.drawn[Len(locals.drawn)].pso = "opaque"

\* C22: when the CPU is about to write the constant buffers of the current
\* frame resource (UpdateObjectCBs, UpdateMainPassCB) or to reset its
\* command allocator (Draw), the fence has reached the Fence stored in that
\* frame resource, or that Fence is 0, and no command list submitted with
\* that frame resource is still in the command queue.
FrameResourceIdleWhenWritten ==
  pc \in {"update_cbs", "draw"} =>
    /\ CurrFrameResource.Fence = 0 \/ app.mFence >= CurrFrameResource.Fence
    /\ \A q \in 1..Len(app.mCommandQueue) :
         app.mCommandQueue[q].kind = "commands" =>
           app.mCommandQueue[q].frame /= app.mCurrFrameResourceIndex

\* Update writes a frame resource that was submitted before, while the GPU
\* is still working on a later frame
ReusedWhileGpuBusy ==
  /\ pc = "update_cbs"
  /\ CurrFrameResource.Fence /= 0
  /\ app.mCommandQueue /= <<>>

\* C23: every render item starts with NumFramesDirty = 3; after u Updates
\* the counter is 3 - u, and 0 from the third Update on, never negative;
\* the Updates use the frame resources 1, 2, 0, ...; every ObjectCB slot
\* received at most one copy, the world matrix of the item with that
\* ObjCBIndex; after three Updates every slot of every frame resource
\* received exactly one and no Update copies again.
DirtyCountersRunOut ==
  LET u == locals.updates
      Turn(k) == ((k + gNumFrameResources - 1) % gNumFrameResources) + 1
  IN /\ \A e \in 1..Len(app.mAllRitems) :
          /\ app.mAllRitems[e].NumFramesDirty >= 0
          /\ app.mAllRitems[e].NumFramesDirty
               = (IF u < gNumFrameResources THEN gNumFrameResources - u ELSE 0)
     /\ pc = "draw" => app.mCurrFrameResourceIndex = u % gNumFrameResources
     /\ \A k \in 0..(gNumFrameResources - 1) :
          \A e \in 1..Len(app.mAllRitems) :
            LET slot == app.mFrameResources[k + 1].ObjectCB[app.mAllRitems[e].ObjCBIndex]
            IN /\ slot.copies = (IF u >= Turn(k) THEN 1 ELSE 0)
               /\ slot.copies = 1 => slot.data = app.mAllRitems[e].World

\* a fourth Update has returned
UpdatedAfterCountersRanOut ==
  /\ pc = "draw"
  /\ locals.updates > gNumFrameResources
  /\ Len(app.mAllRitems) = MaxItems

\* C26: every Draw stores in its frame resource and signals a fence value
\* one greater than the Draw before it, and the number of frames submitted
\* and not completed by the GPU, mCurrentFence minus the completed value of
\* the fence, is at most gNumFrameResources.
FramesInFlightBounded ==
  LET drawn == locals.drawn
  IN /\ \A f \in 1..(Len(drawn) - 1) : drawn[f + 1].fence = drawn[f].fence + 1
     /\ drawn /= <<>> =>
          /\ app.mCurrentFence = drawn[Len(drawn)].fence
          /\ app.mFrameResources[drawn[Len(drawn)].frame + 1].Fence
               = drawn[Len(drawn)].fence
     /\ app.mFence <= app.mCurrentFence
     /\ app.mCurrentFence - app.mFence <= gNumFrameResources
     /\ app.mCurrentFence > app.mFence =>
          /\ app.mCommandQueue /= <<>>
          /\ app.mCommandQueue[Len(app.mCommandQueue)]
               = [kind |-> "signal", value |-> app.mCurrentFence]

\* three frames are in flight after a fourth Draw
ThreeFramesInFlight ==
  /\ Len(locals.drawn) > gNumFrameResources
  /\ app.mCurrentFence - app.mFence = gNumFrameResources

\* C27: the Fence an Update waits for was stored by an earlier Draw and its
\* signal is in the command queue or completed; when the GPU completes
\* what is submitted to it, every Update returns.
UpdateReturns ==
  /\ [](pc = "waiting" =>
          /\ \E f \in 1..Len(locals.drawn) :
               /\ locals.drawn[f].fence = CurrFrameResource.Fence
               /\ locals.drawn[f].frame = app.mCurrFrameResourceIndex
          /\ \/ app.mFence >= CurrFrameResource.Fence
             \/ \E q \in 1..Len(app.mCommandQueue) :
                  app.mCommandQueue[q]
                    = [kind |-> "signal", value |-> CurrFrameResource.Fence])
  /\ (pc \in {"waiting", "update_cbs"}) ~> (pc = "draw")

\* an Update is blocked: the fence has not reached the value it waits for
UpdateBlocked ==
  /\ pc = "waiting"
  /\ app.mFence < CurrFrameResource.Fence

-----------------------------------------------------------------------------
(* The literal index tables of the polyhedron generators *)

\* C24: in every polyhedron generator each index value the generator
\* assigns in its index table is the number of a vertex slot it assigned,
\* and a returned, unsubdivided mesh carries these values.
AssignedIndicesReferToAssignedVertices ==
  (call.fn \in Polyhedra /\ pc \in {"returned", "fell_off_end"}) =>
    LET tables == BaseTables(call, AnyJunk)
        assignedVertices == AssignedVertices(call)
    IN \A q \in AssignedIndices(call) :
         /\ tables.Indices32[q] + 1 \in assignedVertices
         /\ (pc = "returned" /\ passes = 0) =>
              meshData.Indices32[q] = tables.Indices32[q]

\* CreateChocolate has returned its tables: vertex slot 230 holds what the
\* array held before, and no assigned index is 230
ChocolateTablesReturned ==
  /\ pc = "returned" /\ call.fn = "CreateChocolate" /\ passes = 0
  /\ 231 \notin AssignedVertices(call)
  /\ Cardinality(AssignedIndices(call)) < Len(meshData.Indices32)
  /\ \A q \in AssignedIndices(call) : meshData.Indices32[q] /= 230

\* CreateHexagon has returned its tables: 14 of 24 vertex slots assigned
HexagonTablesReturned ==
  /\ pc = "returned" /\ call.fn = "CreateHexagon" /\ passes = 0
  /\ AssignedVertices(call) = 1..14
  /\ Len(meshData.Vertices) = 24

-----------------------------------------------------------------------------
(* The descriptors of the render items (SpecItems) *)

\* C25: BuildRenderItems gives the k-th of the N = 130 items it pushes the
\* ObjCBIndex k (so the values are 0..N-1, each once); the descriptor
\* frame*N + ObjCBIndex DrawRenderItems binds for an item lies in 0..3N-1,
\* holds the view BuildConstantBufferViews created for that element of
\* that frame resource's object constant buffer, differs from every pass
\* descriptor 3N + frame and is below the heap size (N+1)*3.
ObjCBIndexIsPosition ==
  LET N == Len(app.mAllRitems)
      total == 10 * (10 + 1) + 20
  IN /\ \A e \in 1..N : app.mAllRitems[e].ObjCBIndex = e - 1
     /\ pc \in {"items", "frame_resources", "heap", "initialized", "drawn"} =>
          /\ N = total /\ total = 130
          /\ { app.mAllRitems[e].ObjCBIndex : e \in 1..N } = 0..(N - 1)
          /\ Len(app.mOpaqueRitems) = N
     /\ pc \in {"initialized", "drawn"} =>
          /\ DOMAIN app.mCbvHeap = 0..((N + 1) * 3 - 1)
          /\ \A d \in DOMAIN app.mCbvHeap : app.mCbvHeap[d] /= NoView
     /\ pc = "drawn" =>
          /\ locals.passCbvIndex = 3 * N + app.mCurrFrameResourceIndex
          /\ app.mCbvHeap[locals.passCbvIndex]
               = [buffer |-> "PassCB", frame |-> app.mCurrFrameResourceIndex,
                  element |-> 0]
          /\ \A e \in 1..N :
               LET cbvIndex == locals.cbvIndex[e]
               IN /\ cbvIndex = app.mCurrFrameResourceIndex * N
                                  + app.mAllRitems[e].ObjCBIndex
                  /\ cbvIndex \in 0..(3 * N - 1)
                  /\ cbvIndex < (N + 1) * 3
                  /\ \A frame \in 0..2 : cbvIndex /= 3 * N + frame
                  /\ app.mCbvHeap[cbvIndex]
                       = [buffer |-> "ObjectCB",
                          frame |-> app.mCurrFrameResourceIndex,
                          element |-> app.mAllRitems[e].ObjCBIndex]
                  /\ app.mAllRitems[e].ObjCBIndex
                       \in DOMAIN CurrFrameResource.ObjectCB

\* the items have been drawn with the last frame resource
ItemsDrawnWithLastFrameResource ==
  /\ pc = "drawn"
  /\ app.mCurrFrameResourceIndex = 2
  /\ Len(locals.cbvIndex) = 130

-----------------------------------------------------------------------------
(* The camera (SpecMouse) *)

\* C28: after any sequence of mouse events mPhi is in [0.1, pi - 0.1] and
\* mRadius in [5, 150].  A move with the left button down adds the mouse
\* displacement to mTheta and mPhi and leaves mRadius alone, also with the
\* right button down; a move with only the right button down changes
\* mRadius and neither angle; a move with no button down changes none of
\* the three.  Every move and every button press records the mouse
\* position in mLastMousePos; a release changes nothing.
CameraStaysInRange ==
  /\ app.mPhi >= Rad \div 10 /\ app.mPhi <= Pi - Rad \div 10
  /\ app.mRadius >= 5 * Unit /\ app.mRadius <= 150 * Unit
  /\ locals.last.event /= "none" =>
       LET last == locals.last
           before == last.before
           dx == last.x - before.mLastMousePos.x
           dy == last.y - before.mLastMousePos.y
           left == last.btnState \in {1, 3}
           right == last.btnState \in {2, 3}
       IN CASE last.event = "OnMouseUp" -> app = before
            [] last.event = "OnMouseDown" ->
                 app = [before EXCEPT !.mLastMousePos = [x |-> last.x, y |-> last.y]]
            [] last.event = "OnMouseMove" ->
                 /\ app.mLastMousePos = [x |-> last.x, y |-> last.y]
                 /\ left =>
                      /\ app.mRadius = before.mRadius
                      /\ app.mTheta = before.mTheta + QuarterDegrees(dx)
                      /\ app.mPhi = Clamp(before.mPhi + QuarterDegrees(dy),
                                          Rad \div 10, Pi - Rad \div 10)
                 /\ (right /\ ~left) =>
                      /\ app.mTheta = before.mTheta /\ app.mPhi = before.mPhi
                      /\ app.mRadius
                           = Clamp(before.mRadius + (dx * Unit) \div 20 - (dy * Unit) \div 20,
                                   5 * Unit, 150 * Unit)
                 /\ (~left /\ ~right) =>
                      /\ app.mTheta = before.mTheta /\ app.mPhi = before.mPhi
                      /\ app.mRadius = before.mRadius

\* a move with both buttons down has pushed mPhi to its upper limit, after
\* mRadius had been pushed to its upper limit
OrbitedWithBothButtons ==
  /\ locals.last.event = "OnMouseMove"
  /\ locals.last.btnState = 3
  /\ locals.last.x /= locals.last.before.mLastMousePos.x
  /\ app.mPhi = Pi - Rad \div 10
  /\ locals.last.before.mPhi < app.mPhi
  /\ app.mRadius = 150 * Unit

-----------------------------------------------------------------------------
(* The 16-bit index buffer of BuildShapeGeometry *)

\* m has fewer than 65536 vertices, only index values below 65536, and
\* GetIndices16 returns its indices unchanged
FitsSixteenBits(m) ==
  /\ Len(m.Vertices) < 65536
  /\ \A q \in 1..Len(m.Indices32) : m.Indices32[q] < 65536
  /\ GetIndices16(m) = m.Indices32

\* C29: every mesh BuildShapeGeometry packs into the 16-bit index buffer
\* has fewer than 65536 vertices and only index values below 65536, so
\* narrowing its 32-bit indices to 16 bits changes no index value.
PackedMeshesFitSixteenBits ==
  (pc = "meshes" /\ call.fn = "BuildShapeGeometry") =>
     \A name \in DOMAIN locals.mesh : FitsSixteenBits(locals.mesh[name])

\* BuildShapeGeometry holds a diamond whose index slots 72..89, which
\* CreateDiamond never assigns, carry a value of 65536 or more, so that
\* GetIndices16 stores another value
DiamondNarrowedToOtherIndices ==
  /\ pc = "meshes"
  /\ call.fn = "BuildShapeGeometry"
  /\ Len(locals.mesh.diamond.Indices32) = 90
  /\ \A q \in 73..90 : /\ locals.mesh.diamond.Indices32[q] >= 65536
                       /\ GetIndices16(locals.mesh.diamond)[q]
                            /= locals.mesh.diamond.Indices32[q]
  /\ \A name \in DOMAIN locals.mesh \ {"diamond"} : FitsSixteenBits(locals.mesh[name])

-----------------------------------------------------------------------------
(* CreateGrid for every m and n *)

\* C30: for every m and n, including 0 and 1 where m-1 and n-1 are computed
\* modulo 2^32, CreateGrid never writes an Indices32 position at or beyond
\* Indices32.size() and never emits an index value >= m*n; for m = 1 or
\* n = 1 it returns m*n vertices and an empty index list.
GridWritesWithinBounds ==
  (call.fn = "CreateGrid") =>
     /\ pc /= "out_of_bounds_write"
     /\ (pc \in {"indices", "returned"}) =>
          \A q \in 1..Len(locals.written) :
             /\ locals.written[q] < Len(meshData.Indices32)
             /\ meshData.Indices32[locals.written[q] + 1] < call.m * call.n
     /\ (pc = "returned" /\ (call.m = 1 \/ call.n = 1)) =>
          /\ Len(meshData.Vertices) = call.m * call.n
          /\ meshData.Indices32 = <<>>

\* CreateGrid(width, depth, 0, 0): Indices32 has the six slots of
\* (0-1)*(0-1)*2 = 2 faces, the first inner iteration has filled them with
\* indices of vertices that do not exist, and the inner loop, which runs
\* 2^32 - 1 times, is about to assign slot 6
GridOfNoVerticesWritesPastEnd ==
  /\ call.fn = "CreateGrid"
  /\ call.m = 0
  /\ call.n = 0
  /\ pc = "out_of_bounds_write"
  /\ meshData.Vertices = <<>>
  /\ Len(meshData.Indices32) = 6
  /\ locals.written = <<0, 1, 2, 3, 4, 5>>
  /\ locals.k = 6
  /\ \E q \in 1..6 : meshData.Indices32[q] >= call.m * call.n
====
